---- MODULE Spec2Model ----
(***************************************************************************)
(* ML-KEM (FIPS 203) as implemented by kyber-rs: conversion.rs, hash.rs,   *)
(* polynomial.rs, pke_scheme.rs and Kyber/kem_scheme.rs.                   *)
(*                                                                         *)
(* Byte strings, bit arrays and coefficient arrays are sequences; the      *)
(* element the code calls x[i] is x[i + 1] here.  A call that can fail is  *)
(* a record: tag "ok" with its value, tag "err" with the Error variant, or *)
(* tag "panic" when the Rust code aborts (slice index out of range,        *)
(* copy_from_slice length mismatch).                                       *)
(***************************************************************************)
EXTENDS Integers, Sequences, FiniteSets, TLC

VARIABLES params, pc, d, z, m, ek, dk, shared_secret_bob, ciphertext, call

vars == <<params, pc, d, z, m, ek, dk, shared_secret_bob, ciphertext, call>>

(***************************************************************************)
(* PolyParams (constants.rs, given by the specification's parameter table) *)
(***************************************************************************)
Q == 3329

N == 256

ZETA == 17

N_INV == 3303

\* zetas()[j] = ZETA^bitrev7(j) mod Q, the table in bit-reversed order.
zetas ==
  <<    1, 1729, 2580, 3289, 2642,  630, 1897,  848, 1062, 1919,  193,  797, 2786, 3260,  569, 1746,
      296, 2447, 1339, 1476, 3046,   56, 2240, 1333, 1426, 2094,  535, 2882, 2393, 2879, 1974,  821,
      289,  331, 3253, 1756, 1197, 2304, 2277, 2055,  650, 1977, 2513,  632, 2865,   33, 1320, 1915,
     2319, 1435,  807,  452, 1438, 2868, 1534, 2402, 2647, 2617, 1481,  648, 2474, 3110, 1227,  910,
       17, 2761,  583, 2649, 1637,  723, 2288, 1100, 1409, 2662, 3281,  233,  756, 2156, 3015, 3050,
     1703, 1651, 2789, 1789, 1847,  952, 1461, 2687,  939, 2308, 2437, 2388,  733, 2337,  268,  641,
     1584, 2298, 2037, 3220,  375, 2549, 2090, 1645, 1063,  319, 2773,  757, 2099,  561, 2466, 2594,
     2804, 1092,  403, 1026, 1143, 2150, 2775,  886, 1722, 1212, 1874, 1029, 2110, 2935,  885, 2154 >>

\* The three security levels: (k, eta_1, eta_2, d_u, d_v).
Kyber512Params == [k |-> 2, eta_1 |-> 3, eta_2 |-> 2, d_u |-> 10, d_v |-> 4]

Kyber768Params == [k |-> 3, eta_1 |-> 2, eta_2 |-> 2, d_u |-> 10, d_v |-> 4]

Kyber1024Params == [k |-> 4, eta_1 |-> 2, eta_2 |-> 2, d_u |-> 11, d_v |-> 5]

Levels == {Kyber512Params, Kyber768Params, Kyber1024Params}

\* How many three-byte reads of the XOF sample_ntt is given at first.
XofReads == 192

(***************************************************************************)
(* Helpers                                                                 *)
(***************************************************************************)
\* Evaluate a function-valued expression once, so that later applications
\* read the stored value.
Force(f) == IF f = f THEN f ELSE f

\* result, once the values of steps are computed, in the order listed (the
\* order of the statements that compute them).
After(steps, result) == IF Len(steps) >= 0 THEN result ELSE result

Pow2(n) ==
  CASE n = 0 -> 1 [] n = 1 -> 2 [] n = 2 -> 4 [] n = 3 -> 8 [] n = 4 -> 16
    [] n = 5 -> 32 [] n = 6 -> 64 [] n = 7 -> 128 [] n = 8 -> 256
    [] n = 9 -> 512 [] n = 10 -> 1024 [] n = 11 -> 2048 [] n = 12 -> 4096
    [] n = 13 -> 8192 [] n = 14 -> 16384 [] n = 15 -> 32768

\* bit i of the non-negative integer x: (x >> i) & 1
Bit(x, i) == (x \div Pow2(i)) % 2

\* a | b and a ^ b on u8
Or8(a, b) ==
  LET o(i) == IF Bit(a, i) = 1 \/ Bit(b, i) = 1 THEN Pow2(i) ELSE 0
  IN o(0) + o(1) + o(2) + o(3) + o(4) + o(5) + o(6) + o(7)

Xor8(a, b) ==
  LET x(i) == IF Bit(a, i) # Bit(b, i) THEN Pow2(i) ELSE 0
  IN x(0) + x(1) + x(2) + x(3) + x(4) + x(5) + x(6) + x(7)

Zeros(n) == [i \in 1..n |-> 0]

\* x is a value of an i16
FitsI16(x) == (x >= 0 - 32768) /\ (x <= 32767)

\* x as i16: the low 16 bits of x as a signed value
AsI16(x) == ((x + 32768) % 65536) - 32768

Ok(v) == [tag |-> "ok", val |-> v]

Err(e) == [tag |-> "err", err |-> e]

Panic == [tag |-> "panic"]

\* &s[lo..hi] of a slice: the elements lo .. hi-1 (0-based), a panic when
\* the range is not inside s.
Slice(s, lo, hi) ==
  IF lo <= hi /\ hi <= Len(s) THEN Ok(SubSeq(s, lo + 1, hi)) ELSE Panic

(***************************************************************************)
(* hash.rs.  The sha3 crate is an external collaborator: its four digests  *)
(* are stood in for by one deterministic sponge over three small prime     *)
(* fields, with a separate initial state per digest.  What hash.rs itself  *)
(* decides is kept: which digest each wrapper uses, what it absorbs, how   *)
(* many bytes it squeezes and how the output is split.                     *)
(***************************************************************************)
SpongeP == <<46337, 46327, 46309>>

SpongeA == <<263, 269, 271>>

\* Absorbing data[lo..hi] (1-based, inclusive) into a state that starts at 0:
\* <<s1, s2, s3, a1, a2, a3>> with s_k the state of field k after the bytes
\* and a_k = A_k^(number of bytes).  One byte b is st' = st * A + b + 1.
RECURSIVE AbsorbSeg(_, _, _)
AbsorbSeg(data, lo, hi) ==
  IF lo > hi THEN <<0, 0, 0, 1, 1, 1>>
  ELSE IF lo = hi
  THEN <<data[lo] + 1, data[lo] + 1, data[lo] + 1,
         SpongeA[1], SpongeA[2], SpongeA[3]>>
  ELSE LET mid == (lo + hi) \div 2
           l == AbsorbSeg(data, lo, mid)
           r == AbsorbSeg(data, mid + 1, hi)
       IN <<((l[1] * r[4]) + r[1]) % SpongeP[1],
            ((l[2] * r[5]) + r[2]) % SpongeP[2],
            ((l[3] * r[6]) + r[3]) % SpongeP[3],
            (l[4] * r[4]) % SpongeP[1],
            (l[5] * r[5]) % SpongeP[2],
            (l[6] * r[6]) % SpongeP[3]>>

\* The sponge state after update(data) on a fresh hasher of the given digest.
Absorb(digest, data) ==
  LET s == AbsorbSeg(data, 1, Len(data))
  IN <<((((digest * 7) + 1) * s[4]) + s[1]) % SpongeP[1],
       ((((digest * 11) + 2) * s[5]) + s[2]) % SpongeP[2],
       ((((digest * 13) + 3) * s[6]) + s[3]) % SpongeP[3]>>

\* Output byte i (0-based) of a finalized sponge.
SqueezeByte(st, i) ==
  LET u == ((st[1] * (i + 1)) + st[2]) % SpongeP[1]
      v == ((u * u) + st[3] + i) % SpongeP[2]
      w == ((v * v) + u) % SpongeP[3]
      x == ((w * (v + 1)) + st[1]) % SpongeP[1]
  IN (x \div 8) % 256

Squeeze(st, n) == Force([i \in 1..n |-> SqueezeByte(st, i - 1)])

Sha3_256 == 1

Sha3_512 == 2

Shake256 == 3

Shake128 == 4

\* H::evaluate: SHA3-256, 32 bytes
H(s) == Squeeze(Absorb(Sha3_256, s), 32)

\* J::evaluate: SHAKE256, the first 32 bytes
J(s) == Squeeze(Absorb(Shake256, s), 32)

\* G::evaluate: SHA3-512, split into result[0..32] and result[32..64]
G(c) ==
  LET result == Squeeze(Absorb(Sha3_512, c), 64)
  IN [a |-> SubSeq(result, 1, 32), b |-> SubSeq(result, 33, 64)]

\* prf(eta, s, b): SHAKE256(s || b), 64 * eta bytes; InvalidEta first
prf(eta, s, b) ==
  IF eta # 2 /\ eta # 3 THEN Err("InvalidEta")
  ELSE Ok(Squeeze(Absorb(Shake256, s \o b), 64 * eta))

(***************************************************************************)
(* conversion.rs                                                           *)
(***************************************************************************)
\* compress that rounds down
compress_floor(x, dd, q) == ((x * Pow2(dd)) \div q) % Pow2(dd)

\* compress(x, d, q): ((x * 2^d + q/2) / q) % 2^d in i32
compress(x, dd, q) ==
  LET two_pow_d == Pow2(dd)
      numerator == x * two_pow_d
      rounded == (numerator + (q \div 2)) \div q
  IN rounded % two_pow_d

\* decompress that rounds down
decompress_floor(x, dd, q) == (x * q) \div Pow2(dd)

\* decompress(x, d, q): (x * q + 2^(d-1)) >> d in i32
decompress(x, dd, q) ==
  LET numerator == x * q
      half_divisor == Pow2(dd - 1)
  IN (numerator + half_divisor) \div Pow2(dd)

\* bits_to_bytes(bits, out): both length checks, then out[i / 8] |= 1 << (i % 8)
\* for every bit that equals 1.  The result carries the buffer as the call
\* leaves it.
bits_to_bytes(bits, out) ==
  IF Len(bits) % 8 # 0 THEN [tag |-> "err", err |-> "InvalidInputLength", out |-> out]
  ELSE IF Len(out) # Len(bits) \div 8
  THEN [tag |-> "err", err |-> "InvalidInputLength", out |-> out]
  ELSE LET set(k, i) == IF bits[(8 * (k - 1)) + i + 1] = 1 THEN Pow2(i) ELSE 0
           ored(k) == set(k, 0) + set(k, 1) + set(k, 2) + set(k, 3)
                      + set(k, 4) + set(k, 5) + set(k, 6) + set(k, 7)
       IN [tag |-> "ok", out |-> Force([k \in 1..Len(out) |-> Or8(out[k], ored(k))])]

\* bytes_to_bits that takes the bits of a byte from the high end
bytes_to_bits_msb_first(bytes, out) ==
  IF Len(out) # Len(bytes) * 8
  THEN [tag |-> "err", err |-> "InvalidInputLength", out |-> out]
  ELSE [tag |-> "ok",
        out |-> Force([p \in 1..Len(out) |->
                         Bit(bytes[((p - 1) \div 8) + 1], 7 - ((p - 1) % 8))])]

\* bytes_to_bits(bytes, out): out[8 * byte_index + i] = (byte >> i) & 1
bytes_to_bits(bytes, out) ==
  IF Len(out) # Len(bytes) * 8
  THEN [tag |-> "err", err |-> "InvalidInputLength", out |-> out]
  ELSE [tag |-> "ok",
        out |-> Force([p \in 1..Len(out) |->
                         Bit(bytes[((p - 1) \div 8) + 1], (p - 1) % 8)])]

\* byte_encode(f, d, out): the d low bits of every coefficient, LSB first,
\* packed by bits_to_bytes into out.
byte_encode(f, dd, out) ==
  LET bits == Force([p \in 1..(Len(f) * dd) |->
                       Bit(f[((p - 1) \div dd) + 1], (p - 1) % dd)])
  IN bits_to_bytes(bits, out)

\* the inner loop of byte_decode without the reduction mod m
RECURSIVE DecodeCoeffNoReduce(_, _, _, _, _)
DecodeCoeffNoReduce(bits, i, dd, mm, j) ==
  IF j = 0 THEN 0
  ELSE DecodeCoeffNoReduce(bits, i, dd, mm, j - 1) + (bits[(i * dd) + j] * Pow2(j - 1))

\* The inner loop of byte_decode for one coefficient: out[i] starts at 0 and
\* takes bit j times 2^j, reduced mod m at every step.
RECURSIVE DecodeCoeff(_, _, _, _, _)
DecodeCoeff(bits, i, dd, mm, j) ==
  IF j = 0 THEN 0
  ELSE (DecodeCoeff(bits, i, dd, mm, j - 1)
        + (bits[(i * dd) + j] * Pow2(j - 1))) % mm

\* byte_decode(bytes, d, q, out): m = q for d = 12 and 2^d otherwise; the
\* number of coefficients is n = bits.len() / d (integer division) and out
\* must have exactly n entries.
byte_decode(bytes, dd, q, out) ==
  LET mm == IF dd = 12 THEN q ELSE Pow2(dd)
      bits == bytes_to_bits(bytes, Zeros(Len(bytes) * 8)).out
      n == Len(bits) \div dd
  IN IF Len(out) # n
     THEN [tag |-> "err", err |-> "InvalidInputLength", out |-> out]
     ELSE [tag |-> "ok",
           out |-> Force([i \in 1..n |-> DecodeCoeff(bits, i - 1, dd, mm, dd)])]

(***************************************************************************)
(* polynomial.rs                                                           *)
(***************************************************************************)
\* sample_poly_cbd with its two checks in the other order
sample_poly_cbd_length_first(b, eta) ==
  IF Len(b) # 64 * eta THEN Err("InvalidInputLength")
  ELSE IF eta # 2 /\ eta # 3 THEN Err("InvalidEta")
  ELSE Ok(Zeros(N))

\* Polynomial::sample_poly_cbd(b, eta): the eta check comes first, then the
\* length check; coefficient i is (x - y).rem_euclid(Q).
sample_poly_cbd(b, eta) ==
  IF eta # 2 /\ eta # 3 THEN Err("InvalidEta")
  ELSE IF Len(b) # 64 * eta THEN Err("InvalidInputLength")
  ELSE LET b_bits == bytes_to_bits(b, Zeros(Len(b) * 8)).out
           x(i) == IF eta = 2
                   THEN b_bits[(2 * i * eta) + 1] + b_bits[(2 * i * eta) + 2]
                   ELSE b_bits[(2 * i * eta) + 1] + b_bits[(2 * i * eta) + 2]
                        + b_bits[(2 * i * eta) + 3]
           y(i) == IF eta = 2
                   THEN b_bits[(2 * i * eta) + eta + 1] + b_bits[(2 * i * eta) + eta + 2]
                   ELSE b_bits[(2 * i * eta) + eta + 1] + b_bits[(2 * i * eta) + eta + 2]
                        + b_bits[(2 * i * eta) + eta + 3]
       IN Ok(Force([i \in 1..N |-> (x(i - 1) - y(i - 1)) % Q]))

\* One pass of the while loop of to_ntt (one value of len): block
\* start / (2 len) uses zetas[128 / len + block], and for every j of the block
\* t = zeta * f[j + len], f[j + len] = f[j] - t, f[j] = f[j] + t (mod Q).
NttLayer(coeffs, len) ==
  Force([p \in 1..N |->
     LET zeta == zetas[(128 \div len) + ((p - 1) \div (2 * len)) + 1]
     IN IF (p - 1) % (2 * len) < len
        THEN (coeffs[p] + ((zeta * coeffs[p + len]) % Q)) % Q
        ELSE (coeffs[p - len] - ((zeta * coeffs[p]) % Q)) % Q])

RECURSIVE NttLoop(_, _)
NttLoop(coeffs, len) ==
  IF len > 1 THEN NttLoop(NttLayer(coeffs, len), len \div 2) ELSE coeffs

\* Polynomial::to_ntt
to_ntt(f) == NttLoop(f, 128)

\* One pass of the while loop of from_ntt: block start / (2 len) uses
\* zetas[256 / len - 1 - block]; t = f[j], f[j] = t + f[j + len],
\* f[j + len] = zeta * (f[j + len] - t) (mod Q).
InvNttLayer(coeffs, len) ==
  Force([p \in 1..N |->
     LET zeta == zetas[((256 \div len) - 1 - ((p - 1) \div (2 * len))) + 1]
     IN IF (p - 1) % (2 * len) < len
        THEN (coeffs[p] + coeffs[p + len]) % Q
        ELSE (zeta * (coeffs[p] - coeffs[p - len])) % Q])

RECURSIVE InvNttLoop(_, _)
InvNttLoop(coeffs, len) ==
  IF len <= 128 THEN InvNttLoop(InvNttLayer(coeffs, len), len * 2) ELSE coeffs

\* from_ntt without the final multiplication by N_INV
from_ntt_unscaled(poly_ntt) == InvNttLoop(poly_ntt, 2)

\* Polynomial::from_ntt: the layers, then every coefficient times N_INV
from_ntt(poly_ntt) ==
  LET coeffs == InvNttLoop(poly_ntt, 2)
  IN Force([p \in 1..N |-> (coeffs[p] * N_INV) % Q])

\* Add without rem_euclid
PolyAddNoReduce(a, b) == Force([p \in 1..N |-> a[p] + b[p]])

\* Add for &Polynomial and for &PolynomialNTT
PolyAdd(a, b) == Force([p \in 1..N |-> (a[p] + b[p]) % Q])

\* Sub that adds
PolySubAdds(a, b) == Force([p \in 1..N |-> (a[p] + b[p]) % Q])

\* Sub for &Polynomial
PolySub(a, b) == Force([p \in 1..N |-> (a[p] - b[p]) % Q])

\* The inner loop body of Mul for &Polynomial on new_coeffs[k]:
\* pdt = (x as i32 * y as i32) as i16, then new_coeffs[k] + pdt for i + j < N
\* and new_coeffs[k] - pdt otherwise, in i16, then rem_euclid(Q).  truncated
\* and overflow tell whether a product so far did not fit the i16 it is cast
\* to, and whether a sum or difference so far left the i16 range.
MulStepOf(acc, truncated, overflow, pdt, plus) ==
  [acc |-> AsI16(IF plus THEN acc + AsI16(pdt) ELSE acc - AsI16(pdt)) % Q,
   truncated |-> truncated \/ ~FitsI16(pdt),
   overflow |-> overflow
                \/ ~FitsI16(IF plus THEN acc + AsI16(pdt) ELSE acc - AsI16(pdt))]

\* the step on the value prev of new_coeffs[k] and the flags so far
MulStep(prev, x, y, plus) ==
  CHOOSE next \in {MulStepOf(v.acc, v.truncated, v.overflow, x * y, plus) : v \in {prev}} :
    TRUE

\* new_coeffs[k] after the rows i = lo .. hi - 1 of Mul for &Polynomial, from
\* its value start before row lo: row i changes new_coeffs[k] once, with
\* j = k - i when i <= k and with j = k + N - i otherwise
RECURSIVE MulRows(_, _, _, _, _, _)
MulRows(a, b, k, start, lo, hi) ==
  IF hi <= lo THEN start
  ELSE MulStep(MulRows(a, b, k, start, lo, hi - 1), a[hi],
               IF hi - 1 <= k THEN b[(k - (hi - 1)) + 1]
                              ELSE b[((k + N) - (hi - 1)) + 1],
               hi - 1 <= k)

\* new_coeffs[k] after the rows i = 0 .. rows - 1, sixteen rows at a time
RECURSIVE MulAccumulate(_, _, _, _)
MulAccumulate(a, b, k, rows) ==
  IF rows = 0 THEN [acc |-> 0, truncated |-> FALSE, overflow |-> FALSE]
  ELSE CHOOSE next \in {MulRows(a, b, k, v, rows - 16, rows) :
                           v \in {MulAccumulate(a, b, k, rows - 16)}} : TRUE

\* the 256 coefficients of Mul for &Polynomial with wrapping arithmetic
MulLanes(a, b) == Force([p \in 1..N |-> MulAccumulate(a, b, p - 1, N)])

\* Mul for &Polynomial from its lanes: a build with overflow checks aborts
\* at the first sum or difference that leaves the i16 range, a build without
\* them wraps
MulOutcome(lanes, overflow_checks) ==
  IF overflow_checks /\ (\E p \in 1..N : lanes[p].overflow) THEN Panic
  ELSE Ok(Force([p \in 1..N |-> lanes[p].acc]))

\* gamma without the factor ZETA
GammaSquare(i) == (zetas[i + 1] * zetas[i + 1]) % Q

\* gamma of the i-th pair in Mul for &PolynomialNTT
Gamma(i) == (((zetas[i + 1] * zetas[i + 1]) % Q) * ZETA) % Q

\* Mul for &PolynomialNTT: the 128 products of degree-one factors
NttMul(a, b) ==
  Force([p \in 1..N |->
     LET i == (p - 1) \div 2
         a0 == a[(2 * i) + 1]
         a1 == a[(2 * i) + 2]
         b0 == b[(2 * i) + 1]
         b1 == b[(2 * i) + 2]
     IN IF (p - 1) % 2 = 0
        THEN ((a0 * b0) + (((a1 * b1) % Q) * Gamma(i))) % Q
        ELSE ((a0 * b1) + (a1 * b0)) % Q])

\* The two candidates of the t-th three-byte read (t from 0) of the XOF:
\* d1 = c[0] + 256 * (c[1] % 16), d2 = c[1] / 16 + 16 * c[2].
XofCandidates(st, triples) ==
  Force([p \in 1..(2 * triples) |->
     LET t == (p - 1) \div 2
         c0 == SqueezeByte(st, 3 * t)
         c1 == SqueezeByte(st, (3 * t) + 1)
         c2 == SqueezeByte(st, (3 * t) + 2)
     IN IF (p - 1) % 2 = 0 THEN c0 + (N * (c1 % 16)) ELSE (c1 \div 16) + (16 * c2)])

\* PolynomialNTT::sample_ntt(bytes): the candidates below Q in stream order,
\* until 256 are accepted.  The stream is read `triples` reads at a time, and
\* further while fewer than 256 candidates were accepted.
RECURSIVE SampleNttFrom(_, _)
SampleNttFrom(st, triples) ==
  LET accepted == SelectSeq(XofCandidates(st, triples), LAMBDA c : c < Q)
  IN IF Len(accepted) >= N THEN SubSeq(accepted, 1, N)
     ELSE SampleNttFrom(st, 2 * triples)

sample_ntt(bytes) == SampleNttFrom(Absorb(Shake128, bytes), XofReads)

(***************************************************************************)
(* pke_scheme.rs.  ByteEncode and ByteDecode are the Vec-returning forms   *)
(* of byte_encode and byte_decode: a fresh zeroed buffer of the length the *)
(* input asks for, and the 256 coefficients of a ring element.  A function *)
(* is written as the chain of its stages, each stage an operator that      *)
(* takes the values computed so far.                                       *)
(***************************************************************************)
ByteEncode(f, dd) == byte_encode(f, dd, Zeros((Len(f) * dd) \div 8)).out

ByteDecode(bytes, dd, q) == byte_decode(bytes, dd, q, Zeros(N))

\* .iter().map(|&x| compress(x, d, Q)).collect()
CompressPoly(coeffs, dd) == Force([p \in 1..N |-> compress(coeffs[p], dd, Q)])

\* .iter().map(|&x| decompress(x, d, Q)).collect()
DecompressPoly(coeffs, dd) == Force([p \in 1..N |-> decompress(coeffs[p], dd, Q)])

RECURSIVE Concat(_, _)
Concat(parts, n) == IF n = 0 THEN <<>> ELSE Concat(parts, n - 1) \o parts[n]

\* ek.extend(ByteEncode(&poly.coeffs, d)) for every poly of vec
EncodeVector(vec, k, dd) == Concat(Force([i \in 1..k |-> ByteEncode(vec[i], dd)]), k)

\* a_ntt[i][j] = sample_ntt(rho || j || i)
SampleMatrix(rho, k) ==
  Force([i \in 1..k |-> [j \in 1..k |-> sample_ntt(rho \o <<j - 1, i - 1>>)]])

\* k samples sample_poly_cbd(prf(eta, seed, [n_var]), eta), n_var counting up
\* from n0 by one per sample
NoiseVector(k, eta, seed, n0) ==
  Force([i \in 1..k |-> sample_poly_cbd(prf(eta, seed, <<n0 + i - 1>>).val, eta).val])

\* .iter().map(|poly| poly.to_ntt()).collect()
NttVector(vec, k) == Force([i \in 1..k |-> to_ntt(vec[i])])

\* sum over j < n of row[j] * vec[j], accumulated from the zero element
RECURSIVE DotNtt(_, _, _)
DotNtt(row, vec, n) ==
  IF n = 0 THEN Zeros(N)
  ELSE PolyAdd(DotNtt(row, vec, n - 1), NttMul(row[n], vec[n]))

\* key_gen, lines 73 to 101: t_ntt[i] = sum_j a_ntt[i][j] * s_ntt[j] + e_ntt[i],
\* ek = ByteEncode_12(t_ntt) || rho, dk = ByteEncode_12(s_ntt)
KeyGenEncode(P, rho, a_ntt, s_ntt, e_ntt) ==
  After(<<rho, a_ntt, s_ntt, e_ntt>>,
    [ek |-> EncodeVector(
              Force([i \in 1..P.k |-> PolyAdd(DotNtt(a_ntt[i], s_ntt, P.k), e_ntt[i])]),
              P.k, 12) \o rho,
     dk |-> EncodeVector(s_ntt, P.k, 12)])

\* key_gen, lines 37 to 71: the matrix from rho, then s with the nonces
\* 0 .. k-1 and e with the nonces k .. 2k-1, both with eta_1 and seed gamma
KeyGenSample(P, rho, gamma) ==
  KeyGenEncode(P, rho, SampleMatrix(rho, P.k),
               NttVector(NoiseVector(P.k, P.eta_1, gamma, 0), P.k),
               NttVector(NoiseVector(P.k, P.eta_1, gamma, P.k), P.k))

\* (rho, gamma) = g(d || k)
KeyGenSeeds(P, gh) == KeyGenSample(P, gh.a, gh.b)

\* K_PKE::key_gen(d)
KPkeKeyGen(P, d_bytes) == KeyGenSeeds(P, G(d_bytes \o <<P.k>>))

\* encrypt that packs v with d_u bits per coefficient
EncryptEncodeDuForV(P, u, v) ==
  After(<<u, v>>,
    Ok(EncodeVector(Force([i \in 1..P.k |-> CompressPoly(u[i], P.d_u)]), P.k, P.d_u)
       \o ByteEncode(CompressPoly(v, P.d_v), P.d_u)))

\* encrypt, lines 174 to 192: c1 = ByteEncode_du(compress_du(u)),
\* c2 = ByteEncode_dv(compress_dv(v))
EncryptEncode(P, u, v) ==
  After(<<u, v>>,
    Ok(EncodeVector(Force([i \in 1..P.k |-> CompressPoly(u[i], P.d_u)]), P.k, P.d_u)
       \o ByteEncode(CompressPoly(v, P.d_v), P.d_v)))

\* encrypt, lines 154 to 172:
\* u[i] = from_ntt(sum over j of a_ntt[j][i] * y_ntt[j]) + e_1[i],
\* v = from_ntt(sum over i of t_ntt[i] * y_ntt[i]) + e_2 + mu
EncryptCombine(P, t_ntt, a_ntt, y_ntt, e_1, e_2, mu) ==
  After(<<t_ntt, a_ntt, y_ntt, e_1, e_2, mu>>,
    EncryptEncode(P,
      Force([i \in 1..P.k |->
               PolyAdd(from_ntt(DotNtt([j \in 1..P.k |-> a_ntt[j][i]], y_ntt, P.k)),
                       e_1[i])]),
      PolyAdd(PolyAdd(from_ntt(DotNtt(t_ntt, y_ntt, P.k)), e_2), mu)))

\* mu = decompress_1(ByteDecode_1(m))
MessagePoly(m_bytes) ==
  DecompressPoly(ByteDecode(m_bytes, 1, Q).out, 1)

\* K_PKE::encrypt(ek, m, r).  &ek[384 i .. 384 (i + 1)] and &ek[384 k ..]
\* abort when ek is too short, input[0..32].copy_from_slice(rho) when rho is
\* not 32 bytes long.  y takes the nonces 0 .. k-1 with eta_1, e_1 the nonces
\* k .. 2k-1 with eta_2 and e_2 the nonce 2k with eta_2.
KPkeEncrypt(P, ek_bytes, m_bytes, r_bytes) ==
  LET chunk == [i \in 1..P.k |-> Slice(ek_bytes, 384 * (i - 1), 384 * i)]
      rho_slice == Slice(ek_bytes, 384 * P.k, Len(ek_bytes))
  IN IF \E i \in 1..P.k : chunk[i].tag = "panic" THEN Panic
     ELSE IF rho_slice.tag = "panic" THEN Panic
     ELSE IF Len(rho_slice.val) # 32 THEN Panic
     ELSE EncryptCombine(P,
            Force([i \in 1..P.k |-> ByteDecode(chunk[i].val, 12, Q).out]),
            SampleMatrix(rho_slice.val, P.k),
            NttVector(NoiseVector(P.k, P.eta_1, r_bytes, 0), P.k),
            NoiseVector(P.k, P.eta_2, r_bytes, P.k),
            NoiseVector(1, P.eta_2, r_bytes, 2 * P.k)[1],
            MessagePoly(m_bytes))

\* decrypt that multiplies s_ntt with u' itself, not with its NTT
DecryptCombineNoNtt(P, u_prime, v_prime, s_ntt) ==
  After(<<u_prime, v_prime, s_ntt>>,
    LET w == PolySub(v_prime, from_ntt(DotNtt(s_ntt, u_prime, P.k)))
    IN Ok(ByteEncode(CompressPoly(w, 1), 1)))

\* decrypt, lines 232 to 245: w = v' - from_ntt(sum_i s_ntt[i] * to_ntt(u'[i])),
\* m = ByteEncode_1(compress_1(w))
DecryptCombine(P, u_prime, v_prime, s_ntt) ==
  After(<<u_prime, v_prime, s_ntt>>,
    LET w == PolySub(v_prime, from_ntt(DotNtt(s_ntt, NttVector(u_prime, P.k), P.k)))
    IN Ok(ByteEncode(CompressPoly(w, 1), 1)))

\* K_PKE::decrypt(dk, c).  &c[0 .. 32 d_u k] and &c[32 d_u k ..] abort when c is
\* too short; a c_2 that does not decode to a ring element has no value to go
\* on with, and the call, which has no error to return, aborts as well.
KPkeDecrypt(P, dk_bytes, c_bytes) ==
  LET c_1 == Slice(c_bytes, 0, 32 * P.d_u * P.k)
      c_2 == Slice(c_bytes, 32 * P.d_u * P.k, Len(c_bytes))
      chunk == [i \in 1..P.k |-> Slice(dk_bytes, 384 * (i - 1), 384 * i)]
  IN IF c_1.tag = "panic" \/ c_2.tag = "panic" THEN Panic
     ELSE IF ByteDecode(c_2.val, P.d_v, Q).tag # "ok" THEN Panic
     ELSE IF \E i \in 1..P.k : chunk[i].tag = "panic" THEN Panic
     ELSE DecryptCombine(P,
            Force([i \in 1..P.k |->
               DecompressPoly(
                 ByteDecode(SubSeq(c_1.val, (32 * P.d_u * (i - 1)) + 1, 32 * P.d_u * i),
                            P.d_u, Q).out,
                 P.d_u)]),
            DecompressPoly(ByteDecode(c_2.val, P.d_v, Q).out, P.d_v),
            Force([i \in 1..P.k |-> ByteDecode(chunk[i].val, 12, Q).out]))

(***************************************************************************)
(* Kyber/kem_scheme.rs                                                     *)
(***************************************************************************)
\* key_gen_internal that appends z before H(ek)
KeyGenAssembleZBeforeH(keys, z_bytes) ==
  After(<<keys>>, [ek |-> keys.ek, dk |-> keys.dk \o keys.ek \o z_bytes \o H(keys.ek)])

\* key_gen_internal, lines 23 to 27: dk = dk_pke || ek || H(ek) || z
KeyGenAssemble(keys, z_bytes) ==
  After(<<keys>>, [ek |-> keys.ek, dk |-> keys.dk \o keys.ek \o H(keys.ek) \o z_bytes])

\* MlKem::key_gen_internal(d, z)
key_gen_internal(P, d_bytes, z_bytes) == KeyGenAssemble(KPkeKeyGen(P, d_bytes), z_bytes)

\* encaps_internal, lines 41 to 43: c = encrypt(ek, m, r), the result (K, c)
EncapsEncrypt(P, ek_bytes, m_bytes, kr) ==
  LET c == KPkeEncrypt(P, ek_bytes, m_bytes, kr.b)
  IN IF c.tag = "panic" THEN Panic ELSE Ok([K |-> kr.a, c |-> c.val])

\* MlKem::encaps_internal(ek, m): (K, r) = G(m || H(ek))
encaps_internal(P, ek_bytes, m_bytes) ==
  EncapsEncrypt(P, ek_bytes, m_bytes, G(m_bytes \o H(ek_bytes)))

\* The four regions decaps_internal reads from dk (lines 53 to 56).
DkPkeOf(P, dk_bytes) == Slice(dk_bytes, 0, 384 * P.k)

EkPkeOf(P, dk_bytes) == Slice(dk_bytes, 384 * P.k, (768 * P.k) + 32)

HOf(P, dk_bytes) == Slice(dk_bytes, (768 * P.k) + 32, (768 * P.k) + 64)

ZOf(P, dk_bytes) == Slice(dk_bytes, (768 * P.k) + 64, Len(dk_bytes))

\* decaps_internal without the rejection: k_prime whatever c_prime is
DecapsSelectNoReject(c_bytes, k_prime, k_bar, c_prime) ==
  After(<<k_prime, k_bar, c_prime>>,
    IF c_prime.tag = "panic"
    THEN [tag |-> "panic", steps |-> <<"slice_dk", "decrypt", "g", "j", "encrypt">>]
    ELSE [tag |-> "ok", val |-> k_prime,
          steps |-> <<"slice_dk", "decrypt", "g", "j", "encrypt", "compare", "return">>])

\* decaps_internal, lines 72 to 76: `if c != c_prime { k_prime = k_bar }`, then
\* the return.  steps lists the statements the call executes, by what they
\* do; the assignment is one of them only when the branch is taken.
DecapsSelect(c_bytes, k_prime, k_bar, c_prime) ==
  After(<<k_prime, k_bar, c_prime>>,
    IF c_prime.tag = "panic"
    THEN [tag |-> "panic", steps |-> <<"slice_dk", "decrypt", "g", "j", "encrypt">>]
    ELSE IF c_bytes # c_prime.val
    THEN [tag |-> "ok", val |-> k_bar,
          steps |-> <<"slice_dk", "decrypt", "g", "j", "encrypt",
                      "compare", "assign_k_bar", "return">>]
    ELSE [tag |-> "ok", val |-> k_prime,
          steps |-> <<"slice_dk", "decrypt", "g", "j", "encrypt",
                      "compare", "return">>])

\* decaps_internal with k_bar = J(c || z)
DecapsReencryptJSwapped(P, ek_pke, z_slice, c_bytes, m_prime, kr) ==
  DecapsSelect(c_bytes, kr.a, J(c_bytes \o z_slice),
               KPkeEncrypt(P, ek_pke, m_prime, kr.b))

\* decaps_internal, lines 64 to 70: k_bar = J(z || c) and
\* c_prime = encrypt(ek_pke, m_prime, r_prime)
DecapsReencrypt(P, ek_pke, z_slice, c_bytes, m_prime, kr) ==
  DecapsSelect(c_bytes, kr.a, J(z_slice \o c_bytes),
               KPkeEncrypt(P, ek_pke, m_prime, kr.b))

\* decaps_internal, lines 59 to 62: (k_prime, r_prime) = G(m_prime || h)
DecapsHash(P, ek_pke, h, z_slice, c_bytes, m_prime) ==
  IF m_prime.tag = "panic"
  THEN [tag |-> "panic", steps |-> <<"slice_dk", "decrypt">>]
  ELSE DecapsReencrypt(P, ek_pke, z_slice, c_bytes, m_prime.val, G(m_prime.val \o h))

\* MlKem::decaps_internal(dk, c): the four slices of dk, then
\* m_prime = decrypt(dk_pke, c)
decaps_internal(P, dk_bytes, c_bytes) ==
  IF DkPkeOf(P, dk_bytes).tag = "panic" \/ EkPkeOf(P, dk_bytes).tag = "panic"
     \/ HOf(P, dk_bytes).tag = "panic" \/ ZOf(P, dk_bytes).tag = "panic"
  THEN [tag |-> "panic", steps |-> <<"slice_dk">>]
  ELSE DecapsHash(P, EkPkeOf(P, dk_bytes).val, HOf(P, dk_bytes).val,
                  ZOf(P, dk_bytes).val, c_bytes,
                  KPkeDecrypt(P, DkPkeOf(P, dk_bytes).val, c_bytes))

(***************************************************************************)
(* A session with one MlKem object, as the tests and the fuzz target drive *)
(* it: key_gen_internal, encaps_internal, then one decaps_internal on the  *)
(* ciphertext, on the ciphertext with one byte changed, or on a key or a   *)
(* ciphertext of another length.                                           *)
(***************************************************************************)
\* NumSeeds draws of the random bytes: draw s gives the key generation its
\* (d, z) and the encapsulation its m.
NumSeeds == 2

SeedIds == 0..(NumSeeds - 1)

Seed(s) == [i \in 1..32 |-> ((s * 37) + ((i - 1) * 11) + (((s * s) + ((i - 1) * (i - 1) * s)) % 7)) % 256]

\* s cut or zero-extended to n bytes
Resize(s, n) == IF n <= Len(s) THEN SubSeq(s, 1, n) ELSE s \o Zeros(n - Len(s))

\* bad_ciphertext[pos] ^= corruption_byte
Corrupt(c_bytes, pos, corr) ==
  [i \in 1..Len(c_bytes) |-> IF i = pos + 1 THEN Xor8(c_bytes[i], corr) ELSE c_bytes[i]]

EkLen(P) == (384 * P.k) + 32

DkLen(P) == (768 * P.k) + 96

CtLen(P) == 32 * ((P.d_u * P.k) + P.d_v)

TamperPositions(P) == {0, (32 * P.d_u * P.k) - 1, 32 * P.d_u * P.k, CtLen(P) - 1}

Corruptions == {1, 255}

BadEkLens(P) == {EkLen(P) - 1, EkLen(P) + 1}

BadDkLens(P) == {DkLen(P) - 33, DkLen(P) - 1, DkLen(P) + 1}

BadCtLens(P) == {0, (32 * P.d_u * P.k) - 1, CtLen(P) - 1, CtLen(P) + 1}

NoCall == [op |-> "none"]

Init ==
  /\ params \in Levels
  /\ pc = "new"
  /\ d = <<>> /\ z = <<>> /\ m = <<>>
  /\ ek = <<>> /\ dk = <<>>
  /\ shared_secret_bob = <<>> /\ ciphertext = <<>>
  /\ call = NoCall

\* let (ek, dk) = kem.key_gen_internal(d, z)
KeyGen ==
  /\ pc = "new"
  /\ \E s \in SeedIds :
       LET keys == key_gen_internal(params, Seed(3 * s), Seed((3 * s) + 1))
       IN /\ d' = Seed(3 * s)
          /\ z' = Seed((3 * s) + 1)
          /\ ek' = keys.ek
          /\ dk' = keys.dk
  /\ pc' = "keys"
  /\ UNCHANGED <<params, m, shared_secret_bob, ciphertext, call>>

\* let (shared_secret_bob, ciphertext) = kem.encaps_internal(&ek, m)
Encaps ==
  /\ pc = "keys"
  /\ \E s \in SeedIds :
       LET r == encaps_internal(params, ek, Seed((3 * s) + 2))
       IN /\ m' = Seed((3 * s) + 2)
          /\ shared_secret_bob' = r.val.K
          /\ ciphertext' = r.val.c
  /\ pc' = "encapsulated"
  /\ UNCHANGED <<params, d, z, ek, dk, call>>

\* kem.encaps_internal(&ek', m) with ek' of another length than ek
EncapsBadKey ==
  /\ pc = "keys"
  /\ \E n \in BadEkLens(params), s \in SeedIds :
       call' = [op |-> "encaps", key |-> Resize(ek, n), c |-> <<>>,
                result |-> encaps_internal(params, Resize(ek, n), Seed((3 * s) + 2))]
  /\ pc' = "done"
  /\ UNCHANGED <<params, d, z, m, ek, dk, shared_secret_bob, ciphertext>>

\* kem.decaps_internal(&dk, &ciphertext)
Decaps ==
  /\ pc = "encapsulated"
  /\ call' = [op |-> "decaps", key |-> dk, c |-> ciphertext,
              result |-> decaps_internal(params, dk, ciphertext)]
  /\ pc' = "done"
  /\ UNCHANGED <<params, d, z, m, ek, dk, shared_secret_bob, ciphertext>>

\* bad_ciphertext[pos] ^= corruption_byte; kem.decaps_internal(&dk, &bad_ciphertext)
DecapsCorrupted ==
  /\ pc = "encapsulated"
  /\ \E pos \in TamperPositions(params), corr \in Corruptions :
       LET bad_ciphertext == Corrupt(ciphertext, pos, corr)
       IN call' = [op |-> "decaps", key |-> dk, c |-> bad_ciphertext,
                   result |-> decaps_internal(params, dk, bad_ciphertext)]
  /\ pc' = "done"
  /\ UNCHANGED <<params, d, z, m, ek, dk, shared_secret_bob, ciphertext>>

\* kem.decaps_internal(&dk, c') with c' of another length than a ciphertext
DecapsBadCiphertextLength ==
  /\ pc = "encapsulated"
  /\ \E n \in BadCtLens(params) :
       call' = [op |-> "decaps", key |-> dk, c |-> Resize(ciphertext, n),
                result |-> decaps_internal(params, dk, Resize(ciphertext, n))]
  /\ pc' = "done"
  /\ UNCHANGED <<params, d, z, m, ek, dk, shared_secret_bob, ciphertext>>

\* kem.decaps_internal(dk', &ciphertext) with dk' of another length than dk
DecapsBadKeyLength ==
  /\ pc = "encapsulated"
  /\ \E n \in BadDkLens(params) :
       call' = [op |-> "decaps", key |-> Resize(dk, n), c |-> ciphertext,
                result |-> decaps_internal(params, Resize(dk, n), ciphertext)]
  /\ pc' = "done"
  /\ UNCHANGED <<params, d, z, m, ek, dk, shared_secret_bob, ciphertext>>

Next ==
  \/ KeyGen
  \/ Encaps
  \/ EncapsBadKey
  \/ Decaps
  \/ DecapsCorrupted
  \/ DecapsBadCiphertextLength
  \/ DecapsBadKeyLength

Spec == Init /\ [][Next]_vars


(***************************************************************************)
(* Single calls of the library functions, as the unit tests of             *)
(* conversion.rs and polynomial.rs make them.  call records the arguments  *)
(* and what the call returned.                                             *)
(***************************************************************************)
\* eta ranges over 0 .. MaxEta
MaxEta == 5

EtaRange == 0..MaxEta

\* the one-byte inputs b of prf
Nonces == {0, 255}

\* n bytes of test input number s
TestBytes(s, n) == Squeeze(Absorb(Shake128, Seed(s)), n)

\* the lengths of the input B of sample_poly_cbd: the one eta asks for, and
\* those the two valid values of eta ask for, one byte more, and none
CbdLens(eta) == {0, 64 * eta, 128, 192, 193}

\* NumArrays arrays F of 256 integers in [0, m): all zero, all m - 1, and
\* mixed ones
NumArrays == 3

TestArray(a, mm) ==
  [p \in 1..N |-> CASE a = 0 -> 0
                    [] a = 1 -> mm - 1
                    [] OTHER -> ((p * p * a) + (7 * p) + a) % mm]

\* m of byte_encode and byte_decode
ModulusOf(dd) == IF dd = 12 THEN Q ELSE Pow2(dd)

\* the byte a caller's buffer is filled with before byte_encode writes to it
Fills == {0, 255}

UnitInit ==
  /\ params = Kyber768Params
  /\ pc = "unit"
  /\ d = <<>> /\ z = <<>> /\ m = <<>>
  /\ ek = <<>> /\ dk = <<>>
  /\ shared_secret_bob = <<>> /\ ciphertext = <<>>
  /\ call = NoCall

\* prf(eta, s, &[b])
CallPrf ==
  /\ pc = "unit"
  /\ \E eta \in EtaRange, s \in SeedIds, b \in Nonces :
       call' = [op |-> "prf", eta |-> eta, s |-> Seed(s), b |-> <<b>>,
                result |-> prf(eta, Seed(s), <<b>>)]
  /\ pc' = "returned"
  /\ UNCHANGED <<params, d, z, m, ek, dk, shared_secret_bob, ciphertext>>

\* Polynomial::sample_poly_cbd(b, eta)
CallSamplePolyCbd ==
  /\ pc = "unit"
  /\ \E eta \in EtaRange, s \in SeedIds :
       \E n \in CbdLens(eta) :
         call' = [op |-> "sample_poly_cbd", eta |-> eta, b |-> TestBytes(s, n),
                  result |-> sample_poly_cbd(TestBytes(s, n), eta)]
  /\ pc' = "returned"
  /\ UNCHANGED <<params, d, z, m, ek, dk, shared_secret_bob, ciphertext>>

\* byte_encode(&f, d, &mut encode)?; byte_decode(&encode, d, q, &mut res)?
\* with encode a buffer of 32 d bytes the caller hands in and res zeroed
EncodeThenDecode(f, dd, out) ==
  LET encoded == byte_encode(f, dd, out)
  IN [op |-> "byte_encode", f |-> f, d |-> dd, out |-> out, encoded |-> encoded,
      decoded |-> byte_decode(encoded.out, dd, Q, Zeros(N))]

CallByteEncode ==
  /\ pc = "unit"
  /\ \E dd \in 1..12, a \in 0..(NumArrays - 1), fill \in Fills :
       call' = EncodeThenDecode(TestArray(a, ModulusOf(dd)), dd,
                                [k \in 1..(32 * dd) |-> fill])
  /\ pc' = "returned"
  /\ UNCHANGED <<params, d, z, m, ek, dk, shared_secret_bob, ciphertext>>

\* the lengths of the input B of byte_decode: the 32 d bytes of 256
\* coefficients, one byte less and one byte more
DecodeLens(dd) == {(32 * dd) - 1, 32 * dd, (32 * dd) + 1}

\* the inputs B of n bytes: all bits set, and the test inputs
DecodeInputs(n) == {[k \in 1..n |-> 255]} \cup {TestBytes(s, n) : s \in SeedIds}

\* let mut res = [0i16; 256]; byte_decode(&bytes, d, q, &mut res)
CallByteDecode ==
  /\ pc = "unit"
  /\ \E dd \in 1..12 :
       \E n \in DecodeLens(dd) :
         \E bytes \in DecodeInputs(n) :
           call' = [op |-> "byte_decode", d |-> dd, bytes |-> bytes,
                    result |-> byte_decode(bytes, dd, Q, Zeros(N))]
  /\ pc' = "returned"
  /\ UNCHANGED <<params, d, z, m, ek, dk, shared_secret_bob, ciphertext>>

\* the lengths of the byte strings and, times 8, of the bit arrays of the
\* round trips: none, one, and the 39 of the test
RoundTripLens == {0, 1, 39}

\* bytes_to_bits(bytes, &mut bits)?; bits_to_bytes(&bits, &mut res)? with bits
\* a zeroed array and res a buffer of bytes.len() bytes the caller hands in
BytesToBitsToBytes(bytes, res) ==
  LET bits == bytes_to_bits(bytes, Zeros(8 * Len(bytes)))
  IN [op |-> "bytes_to_bits", bytes |-> bytes, res |-> res, bits |-> bits,
      back |-> bits_to_bytes(bits.out, res)]

CallBytesToBits ==
  /\ pc = "unit"
  /\ \E s \in SeedIds, n \in RoundTripLens, fill \in Fills :
       call' = BytesToBitsToBytes(TestBytes(s, n), [k \in 1..n |-> fill])
  /\ pc' = "returned"
  /\ UNCHANGED <<params, d, z, m, ek, dk, shared_secret_bob, ciphertext>>

\* test bit array number s of 8 n bits
TestBits(s, n) == bytes_to_bits(TestBytes(s, n), Zeros(8 * n)).out

\* bits_to_bytes(&b, &mut bytes)?; bytes_to_bits(&bytes, &mut res)? with bytes
\* a buffer of b.len() / 8 bytes the caller hands in and res a zeroed array
BitsToBytesToBits(b, bytes) ==
  LET packed == bits_to_bytes(b, bytes)
  IN [op |-> "bits_to_bytes", b |-> b, bytes |-> bytes, packed |-> packed,
      back |-> bytes_to_bits(packed.out, Zeros(Len(b)))]

CallBitsToBytes ==
  /\ pc = "unit"
  /\ \E s \in SeedIds, n \in RoundTripLens, fill \in Fills :
       call' = BitsToBytesToBits(TestBits(s, n), [k \in 1..n |-> fill])
  /\ pc' = "returned"
  /\ UNCHANGED <<params, d, z, m, ek, dk, shared_secret_bob, ciphertext>>

\* the d of compress and decompress
CompressBits == 1..11

\* decompress(compress(x, d, q), d, q), x any element of Z_q
CallCompress ==
  /\ pc = "unit"
  /\ \E dd \in CompressBits, x \in 0..(Q - 1) :
       call' = [op |-> "compress", d |-> dd, x |-> x, y |-> compress(x, dd, Q),
                back |-> decompress(compress(x, dd, Q), dd, Q)]
  /\ pc' = "returned"
  /\ UNCHANGED <<params, d, z, m, ek, dk, shared_secret_bob, ciphertext>>

\* compress(decompress(y, d, q), d, q), y any d-bit value
CallDecompress ==
  /\ pc = "unit"
  /\ \E dd \in CompressBits :
       \E y \in 0..(Pow2(dd) - 1) :
         call' = [op |-> "decompress", d |-> dd, y |-> y, x |-> decompress(y, dd, Q),
                  back |-> compress(decompress(y, dd, Q), dd, Q)]
  /\ pc' = "returned"
  /\ UNCHANGED <<params, d, z, m, ek, dk, shared_secret_bob, ciphertext>>

\* KyberPoly::from_slice of the listed coefficients followed by zeros
Padded(head) == [p \in 1..N |-> IF p <= Len(head) THEN head[p] ELSE 0]

\* the polynomials of tests::basics of polynomial.rs (a, p1, p2) and the test
\* arrays with coefficients in [0, Q)
TestPolys ==
  {Padded(<<1, 0, 2, 3, 18, 32, 72, 21, 23, 1, 0, 9, 287, 23>>),
   Padded(<<1, 2, 4, 4, 3, 1, 6, 6, 4, 3>>),
   Padded(<<3, 4, 8, 10, 27, 273, 12, 982, 12, 42, 9>>)}
  \cup {TestArray(a, Q) : a \in 0..(NumArrays - 1)}

\* KyberPoly::from_ntt(&a.to_ntt())
CallNtt ==
  /\ pc = "unit"
  /\ \E f \in TestPolys :
       call' = [op |-> "to_ntt", f |-> f, f_ntt |-> to_ntt(f),
                back |-> from_ntt(to_ntt(f))]
  /\ pc' = "returned"
  /\ UNCHANGED <<params, d, z, m, ek, dk, shared_secret_bob, ciphertext>>

\* KyberPoly::from_ntt(&(&p1.to_ntt() * &p2.to_ntt()))
CallNttMul ==
  /\ pc = "unit"
  /\ \E p1 \in TestPolys, p2 \in TestPolys :
       call' = [op |-> "ntt_mul", p1 |-> p1, p2 |-> p2,
                product |-> from_ntt(NttMul(to_ntt(p1), to_ntt(p2)))]
  /\ pc' = "returned"
  /\ UNCHANGED <<params, d, z, m, ek, dk, shared_secret_bob, ciphertext>>

\* let mess_decrypt = pke_scheme.decrypt(&dk, &ciphertext)
PkeDecryptOf(P, keys, m_bytes, c) ==
  [op |-> "pke", level |-> P, message |-> m_bytes, ciphertext |-> c.val,
   mess_decrypt |-> KPkeDecrypt(P, keys.dk, c.val)]

\* let ciphertext = pke_scheme.encrypt(&ek, message, r)
PkeEncryptOf(P, keys, m_bytes, r_bytes) ==
  PkeDecryptOf(P, keys, m_bytes, KPkeEncrypt(P, keys.ek, m_bytes, r_bytes))

\* let (ek, dk) = pke_scheme.key_gen(seed), then encrypt and decrypt
CallPke ==
  /\ pc = "unit"
  /\ \E P \in Levels, s \in SeedIds, t \in SeedIds :
       call' = PkeEncryptOf(P, KPkeKeyGen(P, Seed(3 * s)), Seed((3 * t) + 2),
                            Seed((3 * t) + 1))
  /\ pc' = "returned"
  /\ UNCHANGED <<params, d, z, m, ek, dk, shared_secret_bob, ciphertext>>

\* &a + &b, &a - &b, a.to_ntt(), from_ntt(&a) and the product of a and b as
\* elements of the NTT domain
CallRingOps ==
  /\ pc = "unit"
  /\ \E a \in TestPolys, b \in TestPolys :
       call' = [op |-> "ring_ops", a |-> a, b |-> b,
                sum |-> PolyAdd(a, b), difference |-> PolySub(a, b),
                ntt_product |-> NttMul(a, b),
                a_ntt |-> to_ntt(a), a_time |-> from_ntt(a)]
  /\ pc' = "returned"
  /\ UNCHANGED <<params, d, z, m, ek, dk, shared_secret_bob, ciphertext>>

\* the ring elements of key_gen, in the order they come to exist: the matrix,
\* s, e, s_ntt, e_ntt, the sums pol_temp over j and t_ntt
KeyGenElements(P, a_ntt, s, e, s_ntt, e_ntt) ==
  After(<<a_ntt, s, e, s_ntt, e_ntt>>,
    Concat(a_ntt, P.k) \o s \o e \o s_ntt \o e_ntt
      \o Force([i \in 1..P.k |-> DotNtt(a_ntt[i], s_ntt, P.k)])
      \o Force([i \in 1..P.k |-> PolyAdd(DotNtt(a_ntt[i], s_ntt, P.k), e_ntt[i])]))

KeyGenElementsNtt(P, a_ntt, s, e) ==
  KeyGenElements(P, a_ntt, s, e, NttVector(s, P.k), NttVector(e, P.k))

KeyGenElementsOf(P, gh) ==
  KeyGenElementsNtt(P, SampleMatrix(gh.a, P.k),
                    NoiseVector(P.k, P.eta_1, gh.b, 0),
                    NoiseVector(P.k, P.eta_1, gh.b, P.k))

\* the ring elements of encrypt: t_ntt, the matrix, y, e_1, e_2, y_ntt, the
\* sums pol_tmp and their from_ntt, u, mu, v_ntt_tmp and its from_ntt, the sum
\* with e_2, and v
EncryptElements(P, t_ntt, a_ntt, y, e_1, e_2, y_ntt, mu) ==
  After(<<t_ntt, a_ntt, y, e_1, e_2, y_ntt, mu>>,
    t_ntt \o Concat(a_ntt, P.k) \o y \o e_1 \o <<e_2>> \o y_ntt
      \o Force([i \in 1..P.k |-> DotNtt([j \in 1..P.k |-> a_ntt[j][i]], y_ntt, P.k)])
      \o Force([i \in 1..P.k |->
                  from_ntt(DotNtt([j \in 1..P.k |-> a_ntt[j][i]], y_ntt, P.k))])
      \o Force([i \in 1..P.k |->
                  PolyAdd(from_ntt(DotNtt([j \in 1..P.k |-> a_ntt[j][i]], y_ntt, P.k)),
                          e_1[i])])
      \o <<mu, DotNtt(t_ntt, y_ntt, P.k), from_ntt(DotNtt(t_ntt, y_ntt, P.k)),
           PolyAdd(from_ntt(DotNtt(t_ntt, y_ntt, P.k)), e_2),
           PolyAdd(PolyAdd(from_ntt(DotNtt(t_ntt, y_ntt, P.k)), e_2), mu)>>)

EncryptElementsNtt(P, t_ntt, a_ntt, y, e_1, e_2, mu) ==
  EncryptElements(P, t_ntt, a_ntt, y, e_1, e_2, NttVector(y, P.k), mu)

EncryptElementsOf(P, ek_bytes, m_bytes, r_bytes) ==
  EncryptElementsNtt(P,
    Force([i \in 1..P.k |->
             ByteDecode(SubSeq(ek_bytes, (384 * (i - 1)) + 1, 384 * i), 12, Q).out]),
    SampleMatrix(SubSeq(ek_bytes, (384 * P.k) + 1, Len(ek_bytes)), P.k),
    NoiseVector(P.k, P.eta_1, r_bytes, 0),
    NoiseVector(P.k, P.eta_2, r_bytes, P.k),
    NoiseVector(1, P.eta_2, r_bytes, 2 * P.k)[1],
    MessagePoly(m_bytes))

\* the ring elements of decrypt: u', v', s_ntt, the NTT of u', pdt_tmp, its
\* from_ntt and w
DecryptElements(P, u_prime, v_prime, s_ntt, u_ntt) ==
  After(<<u_prime, v_prime, s_ntt, u_ntt>>,
    u_prime \o <<v_prime>> \o s_ntt \o u_ntt
      \o <<DotNtt(s_ntt, u_ntt, P.k), from_ntt(DotNtt(s_ntt, u_ntt, P.k)),
           PolySub(v_prime, from_ntt(DotNtt(s_ntt, u_ntt, P.k)))>>)

DecryptElementsNtt(P, u_prime, v_prime, s_ntt) ==
  DecryptElements(P, u_prime, v_prime, s_ntt, NttVector(u_prime, P.k))

DecryptElementsOf(P, dk_bytes, c_bytes) ==
  DecryptElementsNtt(P,
    Force([i \in 1..P.k |->
       DecompressPoly(
         ByteDecode(SubSeq(c_bytes, (32 * P.d_u * (i - 1)) + 1, 32 * P.d_u * i),
                    P.d_u, Q).out,
         P.d_u)]),
    DecompressPoly(
      ByteDecode(SubSeq(c_bytes, (32 * P.d_u * P.k) + 1, Len(c_bytes)), P.d_v, Q).out,
      P.d_v),
    Force([i \in 1..P.k |->
             ByteDecode(SubSeq(dk_bytes, (384 * (i - 1)) + 1, 384 * i), 12, Q).out]))

\* the ring elements of decrypt(dk, c) after those of encrypt and key_gen
PkeElementsDecrypt(P, keys, c, sofar) ==
  [op |-> "pke_elements", level |-> P,
   elements |-> sofar \o DecryptElementsOf(P, keys.dk, c.val)]

\* the ring elements of c = encrypt(ek, m, r) after those of key_gen
PkeElementsEncrypt(P, keys, m_bytes, r_bytes, sofar) ==
  PkeElementsDecrypt(P, keys, KPkeEncrypt(P, keys.ek, m_bytes, r_bytes),
                     sofar \o EncryptElementsOf(P, keys.ek, m_bytes, r_bytes))

\* key_gen(seed), encrypt(ek, message, r) and decrypt(dk, ciphertext) with
\* every ring element they build
CallPkeElements ==
  /\ pc = "unit"
  /\ \E P \in Levels, s \in SeedIds :
       call' = PkeElementsEncrypt(P, KPkeKeyGen(P, Seed(3 * s)), Seed((3 * s) + 2),
                                  Seed((3 * s) + 1),
                                  KeyGenElementsOf(P, G(Seed(3 * s) \o <<P.k>>)))
  /\ pc' = "returned"
  /\ UNCHANGED <<params, d, z, m, ek, dk, shared_secret_bob, ciphertext>>

\* the lengths of the bit arrays given to bits_to_bytes alone: multiples of 8
\* and others
FrameBitLens == {0, 8, 12, 312}

\* the lengths of the buffer out: those the bit arrays ask for, and others
FrameOutLens == {0, 1, 2, 39}

\* bits_to_bytes(&bits, &mut out) with out a buffer the caller hands in
CallBitsToBytesFrame ==
  /\ pc = "unit"
  /\ \E s \in SeedIds, nbits \in FrameBitLens, nout \in FrameOutLens, fill \in Fills :
       call' = [op |-> "bits_to_bytes_frame",
                bits |-> SubSeq(TestBits(s, 39), 1, nbits),
                before |-> [k \in 1..nout |-> fill],
                result |-> bits_to_bytes(SubSeq(TestBits(s, 39), 1, nbits),
                                         [k \in 1..nout |-> fill])]
  /\ pc' = "returned"
  /\ UNCHANGED <<params, d, z, m, ek, dk, shared_secret_bob, ciphertext>>

\* the record of &p1 * &p2 beside from_ntt(&(&p1.to_ntt() * &p2.to_ntt()))
MulRecord(p1, p2, lanes, overflow_checks) ==
  [op |-> "mul", p1 |-> p1, p2 |-> p2, overflow_checks |-> overflow_checks,
   product |-> MulOutcome(lanes, overflow_checks),
   truncated |-> \E p \in 1..N : lanes[p].truncated,
   overflow |-> \E p \in 1..N : lanes[p].overflow,
   ntt_route |-> from_ntt(NttMul(to_ntt(p1), to_ntt(p2)))]

\* the right operands of the products: p2 of tests::basics and the polynomial
\* with every coefficient q - 1
MulOperands ==
  {Padded(<<3, 4, 8, 10, 27, 273, 12, 982, 12, 42, 9>>), TestArray(1, Q)}

\* assert_eq!(from_ntt(&(&p1.to_ntt() * &p2.to_ntt())).coeffs, (&p1 * &p2).coeffs)
\* in a build with and in a build without overflow checks
CallMul ==
  /\ pc = "unit"
  /\ \E p1 \in TestPolys, p2 \in MulOperands :
       \E lanes \in {MulLanes(p1, p2)}, overflow_checks \in BOOLEAN :
         call' = MulRecord(p1, p2, lanes, overflow_checks)
  /\ pc' = "returned"
  /\ UNCHANGED <<params, d, z, m, ek, dk, shared_secret_bob, ciphertext>>

UnitNext ==
  \/ CallPrf
  \/ CallSamplePolyCbd
  \/ CallByteEncode
  \/ CallByteDecode
  \/ CallBytesToBits
  \/ CallBitsToBytes
  \/ CallCompress
  \/ CallDecompress
  \/ CallNtt
  \/ CallNttMul
  \/ CallPke
  \/ CallRingOps
  \/ CallPkeElements
  \/ CallBitsToBytesFrame
  \/ CallMul

UnitSpec == UnitInit /\ [][UnitNext]_vars

(***************************************************************************)
(* The sampling loops of sample_ntt, key_gen and encrypt, one step per     *)
(* iteration (LoopSpec).  call holds the locals of the running function,   *)
(* pc its position.  prf_log is the list of the calls made to prf so far.  *)
(***************************************************************************)
LoopInit ==
  /\ params \in Levels
  /\ pc = "idle"
  /\ d = <<>> /\ z = <<>> /\ m = <<>>
  /\ ek = <<>> /\ dk = <<>>
  /\ shared_secret_bob = <<>> /\ ciphertext = <<>>
  /\ call = NoCall

\* the 34 bytes rho || j || i given to sample_ntt
XofInputs == {Seed(s) \o <<j, 0>> : s \in SeedIds, j \in 0..1}

\* the loop body with the two candidates tried in the other order
SampleNttStepD2First(a, j, c) ==
  LET d1 == c[1] + (N * (c[2] % 16))
      d2 == (c[2] \div 16) + (16 * c[3])
      j1 == IF d2 < Q THEN j + 1 ELSE j
      a1 == IF d2 < Q THEN [a EXCEPT ![j + 1] = d2] ELSE a
  IN IF (d1 < Q) /\ (j1 < N)
     THEN [a |-> [a1 EXCEPT ![j1 + 1] = d1], j |-> j1 + 1]
     ELSE [a |-> a1, j |-> j1]

\* the body of the loop of sample_ntt on the three bytes c just read:
\* if d1 < Q { a[j] = d1; j += 1 }  if (d2 < Q) && (j < N) { a[j] = d2; j += 1 }
SampleNttStep(a, j, c) ==
  LET d1 == c[1] + (N * (c[2] % 16))
      d2 == (c[2] \div 16) + (16 * c[3])
      j1 == IF d1 < Q THEN j + 1 ELSE j
      a1 == IF d1 < Q THEN [a EXCEPT ![j + 1] = d1] ELSE a
  IN IF (d2 < Q) /\ (j1 < N)
     THEN [a |-> [a1 EXCEPT ![j1 + 1] = d2], j |-> j1 + 1]
     ELSE [a |-> a1, j |-> j1]

\* reader.read(&mut c) after `reads` earlier reads
XofRead(reader, reads) ==
  <<SqueezeByte(reader, 3 * reads), SqueezeByte(reader, (3 * reads) + 1),
    SqueezeByte(reader, (3 * reads) + 2)>>

\* sample_ntt, lines 284 to 288
SampleNttBegin ==
  /\ pc = "idle"
  /\ \E bytes \in XofInputs :
       call' = [op |-> "sample_ntt", bytes |-> bytes,
                reader |-> Absorb(Shake128, bytes), reads |-> 0,
                a |-> Zeros(N), j |-> 0]
  /\ pc' = "sample_ntt_loop"
  /\ UNCHANGED <<params, d, z, m, ek, dk, shared_secret_bob, ciphertext>>

\* one iteration of while j < N
SampleNttIterate ==
  /\ pc = "sample_ntt_loop"
  /\ call.j < N
  /\ call' = [call EXCEPT
        !.a = SampleNttStep(call.a, call.j, XofRead(call.reader, call.reads)).a,
        !.j = SampleNttStep(call.a, call.j, XofRead(call.reader, call.reads)).j,
        !.reads = @ + 1]
  /\ UNCHANGED <<params, pc, d, z, m, ek, dk, shared_secret_bob, ciphertext>>

\* the loop ends and a is returned
SampleNttReturn ==
  /\ pc = "sample_ntt_loop"
  /\ ~(call.j < N)
  /\ pc' = "returned"
  /\ UNCHANGED <<params, d, z, m, ek, dk, shared_secret_bob, ciphertext, call>>

\* a counter that does not move
NextNonceStuck(n_var) == n_var

\* n_var += 1
NextNonce(n_var) == n_var + 1

\* prf(eta, seed, &[n_var as u8]) given to sample_poly_cbd, the sample pushed
\* on the vector `field` of the locals c
NoiseSample(c, field, eta, seed) ==
  [c EXCEPT
     ![field] = Append(@, sample_poly_cbd(prf(eta, seed, <<c.n_var % 256>>).val, eta).val),
     !.prf_log = Append(@, [eta |-> eta, seed |-> seed, nonce |-> c.n_var % 256])]

\* the sample, then n_var += 1
NoiseSampleCount(c, field, eta, seed) ==
  [NoiseSample(c, field, eta, seed) EXCEPT !.n_var = NextNonce(@)]

\* key_gen, lines 35 to 52: (rho, gamma) = g(d || k), n_var = 0, the matrix
KeyGenBegin ==
  /\ pc = "idle"
  /\ \E s \in SeedIds :
       call' = [op |-> "key_gen", d |-> Seed(s),
                rho |-> G(Seed(s) \o <<params.k>>).a,
                gamma |-> G(Seed(s) \o <<params.k>>).b,
                n_var |-> 0,
                a_ntt |-> SampleMatrix(G(Seed(s) \o <<params.k>>).a, params.k),
                s |-> <<>>, e |-> <<>>, prf_log |-> <<>>, result |-> <<>>]
  /\ pc' = "key_gen_s"
  /\ UNCHANGED <<params, d, z, m, ek, dk, shared_secret_bob, ciphertext>>

\* key_gen, lines 55 to 61: one iteration of the loop that fills s
KeyGenSampleS ==
  /\ pc = "key_gen_s"
  /\ Len(call.s) < params.k
  /\ call' = NoiseSampleCount(call, "s", params.eta_1, call.gamma)
  /\ pc' = IF Len(call.s) + 1 < params.k THEN "key_gen_s" ELSE "key_gen_e"
  /\ UNCHANGED <<params, d, z, m, ek, dk, shared_secret_bob, ciphertext>>

\* key_gen, lines 64 to 70: one iteration of the loop that fills e
KeyGenSampleE ==
  /\ pc = "key_gen_e"
  /\ Len(call.e) < params.k
  /\ call' = NoiseSampleCount(call, "e", params.eta_1, call.gamma)
  /\ pc' = IF Len(call.e) + 1 < params.k THEN "key_gen_e" ELSE "key_gen_encode"
  /\ UNCHANGED <<params, d, z, m, ek, dk, shared_secret_bob, ciphertext>>

\* key_gen, lines 72 to 101
KeyGenReturn ==
  /\ pc = "key_gen_encode"
  /\ call' = [call EXCEPT !.result =
        KeyGenEncode(params, call.rho, call.a_ntt,
                     NttVector(call.s, params.k), NttVector(call.e, params.k))]
  /\ pc' = "returned"
  /\ UNCHANGED <<params, d, z, m, ek, dk, shared_secret_bob, ciphertext>>

\* encrypt, lines 111 to 131, on an encryption key of key_gen: n_var = 0,
\* t_ntt and rho read from ek, the matrix
EncryptBegin ==
  /\ pc = "idle"
  /\ \E s \in SeedIds :
       call' = [op |-> "encrypt", ek |-> KPkeKeyGen(params, Seed(0)).ek,
                m |-> Seed(1), r |-> Seed(s),
                n_var |-> 0,
                t_ntt |-> Force([i \in 1..params.k |->
                   ByteDecode(SubSeq(KPkeKeyGen(params, Seed(0)).ek,
                                     (384 * (i - 1)) + 1, 384 * i), 12, Q).out]),
                a_ntt |-> SampleMatrix(
                   SubSeq(KPkeKeyGen(params, Seed(0)).ek, (384 * params.k) + 1,
                          (384 * params.k) + 32), params.k),
                y |-> <<>>, e_1 |-> <<>>, e_2 |-> <<>>,
                prf_log |-> <<>>, result |-> <<>>]
  /\ pc' = "encrypt_y"
  /\ UNCHANGED <<params, d, z, m, ek, dk, shared_secret_bob, ciphertext>>

\* encrypt, lines 134 to 140: one iteration of the loop that fills y
EncryptSampleY ==
  /\ pc = "encrypt_y"
  /\ Len(call.y) < params.k
  /\ call' = NoiseSampleCount(call, "y", params.eta_1, call.r)
  /\ pc' = IF Len(call.y) + 1 < params.k THEN "encrypt_y" ELSE "encrypt_e_1"
  /\ UNCHANGED <<params, d, z, m, ek, dk, shared_secret_bob, ciphertext>>

\* encrypt, lines 143 to 149: one iteration of the loop that fills e_1
EncryptSampleE1 ==
  /\ pc = "encrypt_e_1"
  /\ Len(call.e_1) < params.k
  /\ call' = NoiseSampleCount(call, "e_1", params.eta_2, call.r)
  /\ pc' = IF Len(call.e_1) + 1 < params.k THEN "encrypt_e_1" ELSE "encrypt_e_2"
  /\ UNCHANGED <<params, d, z, m, ek, dk, shared_secret_bob, ciphertext>>

\* encrypt, line 151: e_2, after which n_var is not read again
EncryptSampleE2 ==
  /\ pc = "encrypt_e_2"
  /\ call' = NoiseSample(call, "e_2", params.eta_2, call.r)
  /\ pc' = "encrypt_combine"
  /\ UNCHANGED <<params, d, z, m, ek, dk, shared_secret_bob, ciphertext>>

\* encrypt, lines 152 to 192
EncryptReturn ==
  /\ pc = "encrypt_combine"
  /\ call' = [call EXCEPT !.result =
        EncryptCombine(params, call.t_ntt, call.a_ntt,
                       NttVector(call.y, params.k), call.e_1, call.e_2[1],
                       MessagePoly(call.m))]
  /\ pc' = "returned"
  /\ UNCHANGED <<params, d, z, m, ek, dk, shared_secret_bob, ciphertext>>

LoopNext ==
  \/ SampleNttBegin
  \/ SampleNttIterate
  \/ SampleNttReturn
  \/ KeyGenBegin
  \/ KeyGenSampleS
  \/ KeyGenSampleE
  \/ KeyGenReturn
  \/ EncryptBegin
  \/ EncryptSampleY
  \/ EncryptSampleE1
  \/ EncryptSampleE2
  \/ EncryptReturn

LoopSpec == LoopInit /\ [][LoopNext]_vars

(***************************************************************************)
(* Properties of the session (Spec)                                        *)
(***************************************************************************)
\* decaps_internal was called with the generated dk and the ciphertext of
\* encaps_internal
HonestDecaps ==
  pc = "done" /\ call.op = "decaps" /\ call.key = dk /\ call.c = ciphertext

\* decaps_internal was called with the generated dk and another ciphertext of
\* the same length
TamperedDecaps ==
  /\ pc = "done" /\ call.op = "decaps" /\ call.key = dk
  /\ call.c # ciphertext /\ Len(call.c) = Len(ciphertext)

\* C1: KEM correctness.  At each level and for every d, z and m, with
\* (ek, dk) = key_gen_internal(d, z) and (K, c) = encaps_internal(ek, m),
\* decaps_internal(dk, c) returns exactly K.
KemCorrectness ==
  HonestDecaps => call.result.tag = "ok" /\ call.result.val = shared_secret_bob

KemCorrectnessWitness ==
  /\ HonestDecaps
  /\ Len(shared_secret_bob) = 32
  /\ call.result.tag = "ok"
  /\ call.result.val = shared_secret_bob

\* What decapsulation has to return for the ciphertext c_bytes, computed from
\* the key pair of the state: m' = Decrypt(dk_pke, c), (K', r') = G(m' || H(ek)),
\* c' = Encrypt(ek, m', r'), and K' when c = c', J(z || c) otherwise.
RejectionValue(c_bytes) ==
  LET m_prime == KPkeDecrypt(params, SubSeq(dk, 1, 384 * params.k), c_bytes).val
      kr == G(m_prime \o H(ek))
      c_prime == KPkeEncrypt(params, ek, m_prime, kr.b).val
  IN After(<<m_prime, kr, c_prime>>,
           IF c_bytes = c_prime THEN kr.a ELSE J(z \o c_bytes))

\* C2: implicit rejection.  decaps_internal(dk, c) returns K' when c equals
\* the re-encryption c' of the decrypted message m' under r', with
\* (K', r') = G(m' || h), and returns J(z || c) in every other case, dk_pke,
\* ek_pke, h and z being the four parts of dk.
ImplicitRejection ==
  (pc = "done" /\ call.op = "decaps" /\ call.key = dk
   /\ Len(call.c) = CtLen(params))
    => call.result.tag = "ok" /\ call.result.val = RejectionValue(call.c)

ImplicitRejectionWitness ==
  /\ TamperedDecaps
  /\ call.result.tag = "ok"
  /\ call.result.val = J(z \o call.c)
  /\ call.result.val # shared_secret_bob

\* C3: tamper detection.  For a ciphertext c of encaps_internal with one byte
\* XORed by a nonzero value, decaps_internal returns a shared secret that is
\* not the secret encaps_internal returned.
TamperDetection ==
  TamperedDecaps => call.result.tag = "ok" /\ call.result.val # shared_secret_bob

TamperDetectionWitness ==
  /\ TamperedDecaps
  /\ call.c[Len(call.c)] # ciphertext[Len(ciphertext)]
  /\ call.result.tag = "ok"
  /\ Len(call.result.val) = 32
  /\ call.result.val # shared_secret_bob

\* the call was handed a key of another length than the level's
WrongKeyLength ==
  /\ pc = "done"
  /\ \/ call.op = "encaps" /\ Len(call.key) # EkLen(params)
     \/ call.op = "decaps" /\ Len(call.key) # DkLen(params)

\* C4: key-length validation.  encaps_internal with an ek whose length is not
\* 384 K + 32 and decaps_internal with a dk whose length is not 768 K + 96
\* return the error InvalidInputLength: no shared secret, no abort.
KeyLengthValidation ==
  WrongKeyLength => call.result = Err("InvalidInputLength")

\* a dk one byte too long, and decaps_internal returns a shared secret
KeyLengthValidationWitness ==
  /\ WrongKeyLength
  /\ call.op = "decaps"
  /\ Len(call.key) = DkLen(params) + 1
  /\ call.result.tag = "ok"
  /\ call.result.val = shared_secret_bob

\* C5: decapsulation errors are structural only.  With the generated dk,
\* decaps_internal(dk, c) returns InvalidInputLength exactly when the length
\* of c is not 32 (d_u K + d_v), a 32-byte secret for every c of that length,
\* and aborts for no c.
DecapsErrorsStructural ==
  (pc = "done" /\ call.op = "decaps" /\ call.key = dk) =>
    IF Len(call.c) # CtLen(params)
    THEN call.result = Err("InvalidInputLength")
    ELSE call.result.tag = "ok" /\ Len(call.result.val) = 32

\* the empty ciphertext, and decaps_internal aborts
DecapsErrorsStructuralWitness ==
  /\ pc = "done" /\ call.op = "decaps" /\ call.key = dk
  /\ call.c = <<>>
  /\ call.result.tag = "panic"

\* C6: constant-time selection.  The steps decaps_internal executes are the
\* same whether or not c equals c': every decapsulation that returns a secret
\* executes the steps of the decapsulation of the untouched ciphertext.
ConstantTimeSelection ==
  (pc = "done" /\ call.op = "decaps" /\ call.key = dk /\ call.result.tag = "ok")
    => call.result.steps = decaps_internal(params, dk, ciphertext).steps

\* a rejected ciphertext, and the call executes the assignment inside the
\* branch on c != c_prime
ConstantTimeSelectionWitness ==
  /\ TamperedDecaps
  /\ call.result.tag = "ok"
  /\ \E i \in 1..Len(call.result.steps) : call.result.steps[i] = "assign_k_bar"

\* the sizes of ek, dk and the ciphertext at each level
SizeTable(P) ==
  CASE P.k = 2 -> [ek |-> 800, dk |-> 1632, ct |-> 768]
    [] P.k = 3 -> [ek |-> 1184, dk |-> 2400, ct |-> 1088]
    [] P.k = 4 -> [ek |-> 1568, dk |-> 3168, ct |-> 1568]

\* C7: output sizes.  At each level key_gen_internal returns ek of
\* 384 K + 32 bytes and dk of 768 K + 96 bytes, and encaps_internal a
\* ciphertext of 32 (d_u K + d_v) bytes and a 32-byte shared secret:
\* 800/1632/768, 1184/2400/1088, 1568/3168/1568.
OutputSizes ==
  /\ pc # "new" =>
       /\ Len(ek) = (384 * params.k) + 32 /\ Len(ek) = SizeTable(params).ek
       /\ Len(dk) = (768 * params.k) + 96 /\ Len(dk) = SizeTable(params).dk
  /\ m # <<>> =>
       /\ Len(ciphertext) = 32 * ((params.d_u * params.k) + params.d_v)
       /\ Len(ciphertext) = SizeTable(params).ct
       /\ Len(shared_secret_bob) = 32

OutputSizesWitness ==
  /\ pc = "encapsulated"
  /\ params.k = 4
  /\ Len(ek) = 1568 /\ Len(dk) = 3168 /\ Len(ciphertext) = 1568
  /\ Len(shared_secret_bob) = 32

\* C8: decapsulation-key layout.  dk = dk_pke || ek || H(ek) || z: bytes
\* [384 K, 768 K + 32) of dk are ek, bytes [768 K + 32, 768 K + 64) are H(ek),
\* the last 32 bytes are z, and decaps_internal reads its four regions at
\* these offsets.
DkLayout ==
  /\ pc = "keys" => SubSeq(dk, 1, 384 * params.k) = KPkeKeyGen(params, d).dk
  /\ pc # "new" =>
       /\ Len(dk) = (768 * params.k) + 96
       /\ SubSeq(dk, (384 * params.k) + 1, (768 * params.k) + 32) = ek
       /\ SubSeq(dk, (768 * params.k) + 33, (768 * params.k) + 64) = H(ek)
       /\ SubSeq(dk, (768 * params.k) + 65, (768 * params.k) + 96) = z
       /\ DkPkeOf(params, dk) = Ok(SubSeq(dk, 1, 384 * params.k))
       /\ EkPkeOf(params, dk) = Ok(ek)
       /\ HOf(params, dk) = Ok(H(ek))
       /\ ZOf(params, dk) = Ok(z)

DkLayoutWitness ==
  /\ pc = "keys"
  /\ Len(z) = 32 /\ Len(ek) = EkLen(params)
  /\ ZOf(params, dk) = Ok(z)
  /\ EkPkeOf(params, dk) = Ok(ek)

(***************************************************************************)
(* Properties of the single calls (UnitSpec)                               *)
(***************************************************************************)
\* C9: eta validation.  prf(eta, s, b) and sample_poly_cbd(B, eta) return
\* InvalidEta for every eta outside {2, 3} whatever the other arguments are,
\* and for eta in {2, 3} prf returns exactly 64 eta bytes.
EtaValidation ==
  /\ call.op = "prf" =>
       IF call.eta \in {2, 3}
       THEN call.result.tag = "ok" /\ Len(call.result.val) = 64 * call.eta
       ELSE call.result = Err("InvalidEta")
  /\ (call.op = "sample_poly_cbd" /\ call.eta \notin {2, 3}) =>
       call.result = Err("InvalidEta")

\* eta = 4 with a B that is not 64 eta bytes long
EtaValidationWitness ==
  /\ call.op = "sample_poly_cbd"
  /\ call.eta = 4
  /\ Len(call.b) # 256
  /\ call.result = Err("InvalidEta")

\* C10: encode/decode round trip.  For every d in 1..12 and every F of 256
\* integers in [0, m), byte_decode of the 32 d bytes byte_encode(F, d) leaves
\* in its buffer returns F.
EncodeDecodeRoundTrip ==
  call.op = "byte_encode" =>
    /\ call.encoded.tag = "ok"
    /\ call.decoded.tag = "ok"
    /\ call.decoded.out = call.f

\* F all zero into a buffer of 0xFF bytes, and the decoded array is not F
EncodeDecodeRoundTripWitness ==
  /\ call.op = "byte_encode"
  /\ call.d = 1
  /\ \A p \in 1..N : call.f[p] = 0
  /\ \A k \in 1..Len(call.out) : call.out[k] = 255
  /\ call.encoded.tag = "ok"
  /\ call.decoded.tag = "ok"
  /\ call.decoded.out # call.f

\* C11: ByteDecode length check.  For every d in 1..12, byte_decode(B, d, q,
\* out) with out of 256 coefficients returns InvalidInputLength whenever B is
\* not exactly 32 d bytes long, one byte longer included.
ByteDecodeLengthCheck ==
  (call.op = "byte_decode" /\ Len(call.bytes) # 32 * call.d) =>
    (call.result.tag = "err" /\ call.result.err = "InvalidInputLength")

\* d = 9 and a B of 289 bytes, and byte_decode returns 256 coefficients
ByteDecodeLengthCheckWitness ==
  /\ call.op = "byte_decode"
  /\ call.d = 9
  /\ Len(call.bytes) = 289
  /\ call.result.tag = "ok"
  /\ Len(call.result.out) = N

\* bit p (from 0) of the byte string, least significant bit of a byte first
StreamBit(bytes, p) == (bytes[(p \div 8) + 1] \div Pow2(p % 8)) % 2

\* the sum over j < n of bit[base + j] 2^j
RECURSIVE FieldValue(_, _, _)
FieldValue(bytes, base, n) ==
  IF n = 0 THEN 0
  ELSE FieldValue(bytes, base, n - 1) + (StreamBit(bytes, base + n - 1) * Pow2(n - 1))

\* C12: ByteDecode reduction.  For an input of 32 d bytes, coefficient i of
\* byte_decode is (sum over j < d of bit[i d + j] 2^j) mod m, m = 2^d for
\* d < 12 and m = q for d = 12; at d = 12 every coefficient is in [0, q).
ByteDecodeReduction ==
  (call.op = "byte_decode" /\ Len(call.bytes) = 32 * call.d) =>
    /\ call.result.tag = "ok"
    /\ \A i \in 1..N :
         /\ call.result.out[i]
              = FieldValue(call.bytes, (i - 1) * call.d, call.d) % ModulusOf(call.d)
         /\ call.d = 12 => call.result.out[i] \in 0..(Q - 1)

\* d = 12 and a 12-bit field of 4095, decoded to 4095 mod q
ByteDecodeReductionWitness ==
  /\ call.op = "byte_decode"
  /\ call.d = 12
  /\ Len(call.bytes) = 384
  /\ FieldValue(call.bytes, 0, 12) = 4095
  /\ call.result.tag = "ok"
  /\ call.result.out[1] = 4095 % Q

\* C13: bits/bytes round trip.  bits_to_bytes(bytes_to_bits(B)) = B for every
\* byte string B, and bytes_to_bits(bits_to_bytes(b)) = b for every bit array
\* b whose length is a multiple of 8, bit i of byte k at position 8 k + i.
BitsBytesRoundTrip ==
  /\ call.op = "bytes_to_bits" =>
       /\ call.bits.tag = "ok"
       /\ \A p \in 1..Len(call.bits.out) :
            call.bits.out[p] = StreamBit(call.bytes, p - 1)
       /\ call.back.tag = "ok"
       /\ call.back.out = call.bytes
  /\ call.op = "bits_to_bytes" =>
       /\ call.packed.tag = "ok"
       /\ call.back.tag = "ok"
       /\ call.back.out = call.b

\* a bit array packed into a buffer of 0xFF bytes, and not read back
BitsBytesRoundTripWitness ==
  /\ call.op = "bits_to_bytes"
  /\ Len(call.b) = 312
  /\ \A k \in 1..Len(call.bytes) : call.bytes[k] = 255
  /\ call.packed.tag = "ok"
  /\ call.back.tag = "ok"
  /\ call.back.out # call.b

Abs(x) == IF x < 0 THEN 0 - x ELSE x

\* ceil(q / 2^(d+1))
CompressBound(dd) == (Q + Pow2(dd + 1) - 1) \div Pow2(dd + 1)

\* C14 as stated: for every x in [0, q) and d in 1..11 the absolute value of
\* the integer difference decompress(compress(x, d, q), d, q) - x is at most
\* ceil(q / 2^(d+1)).
CompressDecompressBound ==
  call.op = "compress" => Abs(call.back - call.x) <= CompressBound(call.d)

\* C14 as amended: the distance modulo q of decompress(compress(x, d, q), d, q)
\* and x, min(|delta|, q - |delta|) for their integer difference delta, is at
\* most ceil(q / 2^(d+1)); the integer difference itself is within the bound
\* unless compress wrapped round(x 2^d / q) = 2^d to 0.
CompressDecompressBoundModQ ==
  call.op = "compress" =>
    /\ \/ Abs(call.back - call.x) <= CompressBound(call.d)
       \/ Q - Abs(call.back - call.x) <= CompressBound(call.d)
    /\ Abs(call.back - call.x) > CompressBound(call.d) => (call.y = 0 /\ call.back = 0)

\* x = 3328 and d = 1: compress wraps to 0 and decompress returns 0
CompressDecompressBoundModQWitness ==
  /\ call.op = "compress"
  /\ call.d = 1
  /\ call.x = 3328
  /\ call.y = 0
  /\ call.back = 0

\* C15: compress inverts decompress.  For every d in 1..11 and every y in
\* [0, 2^d), decompress(y, d, q) is in [0, q) and
\* compress(decompress(y, d, q), d, q) = y.
CompressInvertsDecompress ==
  call.op = "decompress" =>
    /\ call.x \in 0..(Q - 1)
    /\ call.back = call.y

\* the case of the test: decompress(2001, 11, q) = 3253, compressed to 2001
CompressInvertsDecompressWitness ==
  /\ call.op = "decompress"
  /\ call.d = 11
  /\ call.y = 2001
  /\ call.x = 3253
  /\ call.back = 2001

\* C16: NTT involution.  For every polynomial f with its 256 coefficients in
\* [0, q), from_ntt(f.to_ntt()) has exactly the coefficients of f.
NttInvolution ==
  call.op = "to_ntt" =>
    /\ \A p \in 1..N : call.f_ntt[p] \in 0..(Q - 1)
    /\ call.back = call.f

\* the polynomial a of the test, which to_ntt changes and from_ntt restores
NttInvolutionWitness ==
  /\ call.op = "to_ntt"
  /\ call.f[13] = 287
  /\ call.f_ntt # call.f
  /\ call.back = call.f

\* the sum over i in lo..hi of the term of X^k in a_i X^i * b_j X^j modulo
\* X^256 + 1: a_i b_(k-i) for i <= k and - a_i b_(k+256-i) for i > k
RECURSIVE ConvolutionSum(_, _, _, _, _)
ConvolutionSum(a, b, k, lo, hi) ==
  IF lo = hi
  THEN IF lo <= k
       THEN (a[lo + 1] * b[(k - lo) + 1]) % Q
       ELSE (0 - ((a[lo + 1] * b[(k + N - lo) + 1]) % Q)) % Q
  ELSE (ConvolutionSum(a, b, k, lo, (lo + hi) \div 2)
        + ConvolutionSum(a, b, k, ((lo + hi) \div 2) + 1, hi)) % Q

\* the product of a and b in Z_q[X] / (X^256 + 1)
RingProduct(a, b) == [p \in 1..N |-> ConvolutionSum(a, b, p - 1, 0, N - 1)]

\* C17: NTT multiplication is ring multiplication.  For polynomials a, b with
\* coefficients in [0, q), from_ntt(to_ntt(a) * to_ntt(b)) is the product a b
\* in Z_q[X] / (X^256 + 1), the negacyclic convolution reduced mod q.
NttMultiplication ==
  call.op = "ntt_mul" => call.product = RingProduct(call.p1, call.p2)

\* p1 * p2 of the test: the coefficient of X^0 is 3 and the product is not zero
NttMultiplicationWitness ==
  /\ call.op = "ntt_mul"
  /\ call.p1[1] = 1 /\ call.p1[10] = 3 /\ call.p1[11] = 0
  /\ call.p2[1] = 3 /\ call.p2[8] = 982
  /\ call.product[1] = 3
  /\ call.product[2] = 10

\* C18: K-PKE round trip.  For every seed d, message m and randomness r, with
\* (ek, dk) = K-PKE.key_gen(d), K-PKE.decrypt(dk, K-PKE.encrypt(ek, m, r))
\* returns the 32 bytes of m.
PkeRoundTrip ==
  call.op = "pke" => call.mess_decrypt = Ok(call.message)

PkeRoundTripWitness ==
  /\ call.op = "pke"
  /\ call.level.k = 3
  /\ Len(call.message) = 32
  /\ Len(call.ciphertext) = 1088
  /\ call.ciphertext # Zeros(1088)
  /\ call.mess_decrypt = Ok(call.message)

(***************************************************************************)
(* Properties of the sampling loops (LoopSpec)                             *)
(***************************************************************************)
\* the nonces of the calls to prf made so far, in the order of the calls
NoncesOf(log) == [i \in 1..Len(log) |-> log[i].nonce]

\* the etas of the calls to prf made so far, in the order of the calls
EtasOf(log) == [i \in 1..Len(log) |-> log[i].eta]

\* 0, 1, ..., n - 1
CountUp(n) == [i \in 1..n |-> i - 1]

\* C19: PRF nonce sequence.  Within one K-PKE.key_gen call the nonces passed
\* to PRF are 0, 1, ..., 2K-1 in that order (s[0..K) then e[0..K)), within one
\* K-PKE.encrypt call 0, 1, ..., 2K in that order (y[0..K), then e1[0..K),
\* then e2); the counter starts at 0 in every call and increases by one per
\* sample, and no nonce is used twice with the same seed inside one call.
PrfNonceSequence ==
  call.op \in {"key_gen", "encrypt"} =>
    /\ NoncesOf(call.prf_log) = CountUp(Len(call.prf_log))
    /\ \A i, j \in 1..Len(call.prf_log) :
         (i # j /\ call.prf_log[i].seed = call.prf_log[j].seed)
           => call.prf_log[i].nonce # call.prf_log[j].nonce
    /\ call.op = "key_gen" =>
         /\ call.n_var = Len(call.s) + Len(call.e)
         /\ Len(call.prf_log) = Len(call.s) + Len(call.e)
         /\ Len(call.e) > 0 => Len(call.s) = params.k
         /\ \A i \in 1..Len(call.prf_log) :
              call.prf_log[i].seed = call.gamma /\ call.prf_log[i].eta = params.eta_1
         /\ \A i \in 1..Len(call.s) :
              call.s[i] = sample_poly_cbd(
                 prf(params.eta_1, call.gamma, <<i - 1>>).val, params.eta_1).val
         /\ \A i \in 1..Len(call.e) :
              call.e[i] = sample_poly_cbd(
                 prf(params.eta_1, call.gamma, <<params.k + i - 1>>).val, params.eta_1).val
         /\ pc = "returned" =>
              /\ NoncesOf(call.prf_log) = CountUp(2 * params.k)
              /\ call.result = KPkeKeyGen(params, call.d)
    /\ call.op = "encrypt" =>
         /\ call.n_var = Len(call.y) + Len(call.e_1)
         /\ Len(call.prf_log) = Len(call.y) + Len(call.e_1) + Len(call.e_2)
         /\ Len(call.e_1) > 0 => Len(call.y) = params.k
         /\ Len(call.e_2) > 0 => Len(call.e_1) = params.k
         /\ \A i \in 1..Len(call.prf_log) :
              /\ call.prf_log[i].seed = call.r
              /\ call.prf_log[i].eta =
                   IF i <= params.k THEN params.eta_1 ELSE params.eta_2
         /\ \A i \in 1..Len(call.y) :
              call.y[i] = sample_poly_cbd(
                 prf(params.eta_1, call.r, <<i - 1>>).val, params.eta_1).val
         /\ \A i \in 1..Len(call.e_1) :
              call.e_1[i] = sample_poly_cbd(
                 prf(params.eta_2, call.r, <<params.k + i - 1>>).val, params.eta_2).val
         /\ \A i \in 1..Len(call.e_2) :
              call.e_2[i] = sample_poly_cbd(
                 prf(params.eta_2, call.r, <<2 * params.k>>).val, params.eta_2).val
         /\ pc = "returned" =>
              /\ NoncesOf(call.prf_log) = CountUp((2 * params.k) + 1)
              /\ call.result = KPkeEncrypt(params, call.ek, call.m, call.r)

\* encrypt of ML-KEM-512 has returned: five calls to prf, y with eta_1 = 3 and
\* the nonces 0, 1, then e_1 and e_2 with eta_2 = 2 and the nonces 2, 3, 4
PrfNonceSequenceWitness ==
  /\ call.op = "encrypt" /\ pc = "returned"
  /\ params.k = 2
  /\ NoncesOf(call.prf_log) = <<0, 1, 2, 3, 4>>
  /\ EtasOf(call.prf_log) = <<3, 3, 2, 2, 2>>
  /\ Len(call.y) = 2 /\ Len(call.e_1) = 2 /\ Len(call.e_2) = 1
  /\ Len(call.result.val) = 768

\* the candidates of the first `reads` three-byte reads (c0, c1, c2) of the
\* stream: d1 = c0 + 256 (c1 mod 16), then d2 = (c1 div 16) + 16 c2
StreamCandidates(reader, reads) ==
  [p \in 1..(2 * reads) |->
     IF p % 2 = 1
     THEN SqueezeByte(reader, 3 * ((p - 1) \div 2))
            + (256 * (SqueezeByte(reader, (3 * ((p - 1) \div 2)) + 1) % 16))
     ELSE (SqueezeByte(reader, (3 * ((p - 1) \div 2)) + 1) \div 16)
            + (16 * SqueezeByte(reader, (3 * ((p - 1) \div 2)) + 2))]

\* those of the candidates that are below q, in stream order
StreamAccepted(reader, reads) ==
  SelectSeq(StreamCandidates(reader, reads), LAMBDA c : c < Q)

\* C20: rejection sampling.  sample_ntt reads the XOF stream three bytes at a
\* time, and what it has written after each read is the candidates below q
\* of the reads so far, in stream order with d1 before d2, cut at 256; it
\* reads on only while fewer than 256 were accepted, so that a d2 after the
\* 256th acceptance is dropped; what it returns is the first 256 candidates
\* below q, every coefficient in [0, q).
RejectionSampling ==
  call.op = "sample_ntt" =>
    /\ call.j = IF Len(StreamAccepted(call.reader, call.reads)) < N
                THEN Len(StreamAccepted(call.reader, call.reads)) ELSE N
    /\ SubSeq(call.a, 1, call.j)
         = SubSeq(StreamAccepted(call.reader, call.reads), 1, call.j)
    /\ \A p \in 1..N : call.a[p] \in 0..(Q - 1)
    /\ call.reads > 0 => Len(StreamAccepted(call.reader, call.reads - 1)) < N
    /\ pc = "returned" =>
         /\ call.j = N
         /\ call.a = sample_ntt(call.bytes)

\* sample_ntt has returned after a read whose d1 was the 256th accepted
\* candidate and whose d2, below q as well, was dropped
RejectionSamplingWitness ==
  /\ call.op = "sample_ntt" /\ pc = "returned"
  /\ Len(StreamAccepted(call.reader, call.reads - 1)) = N - 1
  /\ Len(StreamAccepted(call.reader, call.reads)) = N + 1
  /\ call.a[N] = StreamCandidates(call.reader, call.reads)[(2 * call.reads) - 1]

\* the sum of the n bits of BytesToBits(B) from bit lo on
RECURSIVE BitSum(_, _, _)
BitSum(b_bytes, lo, n) ==
  IF n = 0 THEN 0 ELSE StreamBit(b_bytes, lo) + BitSum(b_bytes, lo + 1, n - 1)

\* C21: centered binomial sampling.  For eta in {2, 3} and B of 64 eta bytes,
\* coefficient i of sample_poly_cbd(B, eta) is (x - y) mod q, x the sum of the
\* bits 2 i eta .. 2 i eta + eta - 1 and y the sum of the bits
\* 2 i eta + eta .. 2 i eta + 2 eta - 1 of BytesToBits(B); so every coefficient
\* lies in [0, eta] or in [q - eta, q - 1].
CenteredBinomial ==
  (call.op = "sample_poly_cbd" /\ call.eta \in {2, 3} /\ Len(call.b) = 64 * call.eta) =>
    /\ call.result.tag = "ok"
    /\ Len(call.result.val) = N
    /\ \A i \in 0..(N - 1) :
         /\ call.result.val[i + 1] =
              (BitSum(call.b, 2 * i * call.eta, call.eta)
                 - BitSum(call.b, (2 * i * call.eta) + call.eta, call.eta)) % Q
         /\ \/ call.result.val[i + 1] \in 0..call.eta
            \/ call.result.val[i + 1] \in (Q - call.eta)..(Q - 1)

\* eta = 3 on 192 bytes: one coefficient is in [q - 3, q - 1], one is in
\* [1, 3] and one is 0
CenteredBinomialWitness ==
  /\ call.op = "sample_poly_cbd" /\ call.eta = 3 /\ Len(call.b) = 192
  /\ call.result.tag = "ok"
  /\ \E i \in 1..N : call.result.val[i] \in (Q - 3)..(Q - 1)
  /\ \E i \in 1..N : call.result.val[i] \in 1..3
  /\ \E i \in 1..N : call.result.val[i] = 0

\* 256 coefficients, every one in [0, q)
Reduced(f) == Len(f) = N /\ \A p \in 1..N : f[p] \in 0..(Q - 1)

\* C22: reduced coefficients.  Every ring element that sample_poly_cbd,
\* sample_ntt, to_ntt, from_ntt, addition, subtraction or the multiplication
\* of the NTT domain produce from operands with coefficients in [0, q) has
\* 256 coefficients in [0, q), the sums and differences staying inside an
\* i16; so every ring element of key_gen, encrypt and decrypt is reduced.
ReducedCoefficients ==
  /\ call.op = "ring_ops" =>
       /\ Reduced(call.a) /\ Reduced(call.b)
       /\ \A p \in 1..N : FitsI16(call.a[p] + call.b[p]) /\ FitsI16(call.a[p] - call.b[p])
       /\ Reduced(call.sum)
       /\ Reduced(call.difference)
       /\ Reduced(call.ntt_product)
       /\ Reduced(call.a_ntt)
       /\ Reduced(call.a_time)
  /\ (call.op = "sample_poly_cbd" /\ call.result.tag = "ok") => Reduced(call.result.val)
  /\ call.op = "to_ntt" => Reduced(call.f_ntt) /\ Reduced(call.back)
  /\ call.op = "ntt_mul" => Reduced(call.product)
  /\ call.op = "pke_elements" =>
       \A i \in 1..Len(call.elements) : Reduced(call.elements[i])

\* both operands with every coefficient q - 1: the sum is q - 2 everywhere
\* and the difference 0
ReducedCoefficientsWitness ==
  /\ call.op = "ring_ops"
  /\ \A p \in 1..N : call.a[p] = Q - 1 /\ call.b[p] = Q - 1
  /\ \A p \in 1..N : call.sum[p] = Q - 2 /\ call.difference[p] = 0
  /\ Reduced(call.ntt_product)
  /\ call.ntt_product # Zeros(N)

\* the sum over i < n of bits[base + i] 2^i, bits numbered from 0
RECURSIVE PackedByte(_, _, _)
PackedByte(bits, base, n) ==
  IF n = 0 THEN 0
  ELSE PackedByte(bits, base, n - 1) + (bits[base + n] * Pow2(n - 1))

\* C24: bits_to_bytes determines its output buffer.  After a successful
\* bits_to_bytes(bits, out) every out[k] is the sum over i < 8 of
\* bits[8 k + i] 2^i whatever out held before the call, and on an
\* InvalidInputLength error out is left as it was.
BitsToBytesFrame ==
  call.op = "bits_to_bytes_frame" =>
    /\ call.result.tag = "ok" =>
         /\ Len(call.result.out) = Len(call.bits) \div 8
         /\ \A k \in 1..Len(call.result.out) :
              call.result.out[k] = PackedByte(call.bits, 8 * (k - 1), 8)
    /\ call.result.tag = "err" =>
         /\ call.result.err = "InvalidInputLength"
         /\ call.result.out = call.before

\* eight bits that are not all 1 packed into a buffer that held 0xFF: the
\* call succeeds and the byte is still 0xFF
BitsToBytesFrameWitness ==
  /\ call.op = "bits_to_bytes_frame"
  /\ Len(call.bits) = 8 /\ call.before = <<255>>
  /\ PackedByte(call.bits, 0, 8) # 255
  /\ call.result.tag = "ok"
  /\ call.result.out = <<255>>

\* bits_to_bytes into a zeroed buffer, and its error returns
BitsToBytesZeroed ==
  (call.op = "bits_to_bytes_frame" /\ \A k \in 1..Len(call.before) : call.before[k] = 0)
    => BitsToBytesFrame

\* C23: multiplication in the time domain agrees with the NTT route.  For all
\* polynomials a, b with coefficients in [0, q), &a * &b equals
\* from_ntt(to_ntt(a) * to_ntt(b)) coefficient for coefficient, and no
\* intermediate value of the schoolbook product leaves its 16-bit lane.
SchoolbookAgreesWithNtt ==
  call.op = "mul" =>
    /\ call.product = Ok(call.ntt_route)
    /\ ~call.truncated
    /\ ~call.overflow

\* a and p2 of tests::basics: 287 * 982 does not fit an i16, no sum leaves
\* the i16 range, and the product differs from the NTT route
SchoolbookAgreesWithNttWitness ==
  /\ call.op = "mul"
  /\ call.p1[13] = 287 /\ call.p2[8] = 982
  /\ call.truncated /\ ~call.overflow
  /\ call.product.tag = "ok"
  /\ call.product # Ok(call.ntt_route)
  /\ call.ntt_route = RingProduct(call.p1, call.p2)

\* p1 and p2 of tests::basics: every product fits and the two routes agree
SchoolbookSmallCoefficients ==
  (call.op = "mul" /\ call.p1[1] = 1 /\ call.p1[2] = 2 /\ call.p2[8] = 982)
    => SchoolbookAgreesWithNtt

\* with overflow checks, a sum that leaves the i16 range aborts the product
SchoolbookOverflowAborts ==
  /\ call.op = "mul" /\ call.overflow_checks /\ call.overflow
  /\ call.product = Panic
====
